---------------------------- MODULE Spec2Model ----------------------------
(***************************************************************************)
(* Model of the host side of the relay protocol of the remote-control      *)
(* server: main's start-up, the registration loop                          *)
(* manageRelayRegistrationAndTunnels and the tunnel goroutines             *)
(* handleHostSideTunnel with their two copy loops; and of connectViaRelay,  *)
(* the session attempt of the launcher on the client side; and of          *)
(* tryGracefulShutdown with the places of main that call it.               *)
(*                                                                         *)
(* Text is modelled as sequences of lexemes: a lexeme is either a run of   *)
(* non-blank characters (a TLA+ string) or the blank lexeme " ".  Tokens   *)
(* and identities are TLA+ strings, so Len gives their length in bytes.    *)
(***************************************************************************)
EXTENDS Integers, Sequences, FiniteSets, TLC

VARIABLES
    enableRelay,          \* flag -relay
    headless,             \* flag -headless
    relayServerAddr,      \* flag -relayServer, as lexemes
    sessionPasswordHash,  \* server.sessionPasswordHash, <<>> is the empty string
    mainPc,               \* position of main
    stdout,               \* lines written to os.Stdout
    pc,                   \* position of manageRelayRegistrationAndTunnels
    controlConn,          \* "nil", "open" or "closed"
    parts,                \* strings.Fields of the line being dispatched
    currentRelayHostID,   \* server.currentRelayHostID
    ctrlOut,              \* write calls on the current control connection
    lastLog,              \* last message logged by the registration loop
    sleepFor,             \* seconds of the pending time.Sleep, 0 if none
    lineBudget,           \* lines the relay may still send on the control connections
    vprRequests,          \* history: tokens of the VERIFY_PASSWORD_REQUESTs read on this connection
    registrations,        \* history: ids of the HOST_REGISTERED lines read
    tunnels,              \* the handleHostSideTunnel goroutines launched so far
    peerBudget,           \* events (bytes sent, ends of connection) the tunnels' peers may still cause
    panicked,             \* a goroutine panicked: the process is dead
    targetHostID,         \* connectViaRelay: argument, a string
    plainTextPassword,    \* connectViaRelay: argument, a string
    relayControlAddr,     \* connectViaRelay: argument, as lexemes
    cvrPc,                \* position of connectViaRelay
    clientConn,           \* connectViaRelay's conn: "nil", "open" or "closed"
    clientOut,            \* write calls on conn
    response,             \* the line read from conn, as lexemes
    result,               \* what connectViaRelay returned
    outcome,              \* history: what became of the session attempt
    grpcServer,           \* the grpc.Server: "nil", "serving", "draining" or "stopped"
    gracefulStops,        \* history: calls of grpcServer.GracefulStop
    forceStops,           \* history: calls of grpcServer.Stop
    shutdowns,            \* the invocations of tryGracefulShutdown so far
    uiPc,                 \* position of main after start-up: the GUI, or the wait for a signal
    launches,             \* history: the calls of launchClientApplication by the launcher
    feed,                 \* GetFeed: the inputEvents channel and the goroutines at its two ends
    overlay,              \* the client's mouseOverlay: inputEventsChan and its senders
    idCall,               \* a call of generateRandomHostID
    errCall               \* a call of isNetworkCloseError

vars == <<enableRelay, headless, relayServerAddr, sessionPasswordHash, mainPc,
          stdout, pc, controlConn, parts, currentRelayHostID, ctrlOut, lastLog,
          sleepFor, lineBudget, vprRequests, registrations, tunnels,
          peerBudget, panicked, targetHostID, plainTextPassword,
          relayControlAddr, cvrPc, clientConn, clientOut, response, result,
          outcome, grpcServer, gracefulStops, forceStops, shutdowns, uiPc,
          launches, feed, overlay, idCall, errCall>>

inputVars == <<feed, overlay>>

callVars == <<idCall, errCall>>

shutdownVars == <<grpcServer, gracefulStops, forceStops, shutdowns, uiPc>>

launcherVars == <<targetHostID, plainTextPassword, relayControlAddr, cvrPc,
                  clientConn, clientOut, response, result, outcome, launches>>

hostVars == <<enableRelay, headless, relayServerAddr, sessionPasswordHash, mainPc,
              stdout, pc, controlConn, parts, currentRelayHostID, ctrlOut, lastLog,
              sleepFor, lineBudget, vprRequests, registrations, tunnels,
              peerBudget, panicked>>

config == <<enableRelay, headless, relayServerAddr, sessionPasswordHash>>

ctrlVars == <<pc, controlConn, parts, currentRelayHostID, ctrlOut, lastLog,
              sleepFor, lineBudget, vprRequests, registrations>>

-----------------------------------------------------------------------------
(* Bounds of the model *)

\* lines the relay sends over the whole run, all control connections together
MaxLines == 3

\* the same budget where the behaviours are checked for liveness
MaxFairLines == 2

\* the number of lines the relay sends on a connection that is already registered
MaxSessionLines == 3

\* events (a payload byte sent, an end of connection) the two peers of a tunnel
\* cause while the tunnel is studied on its own
MaxPeerEvents == 3

\* the number of lines the relay sends on a control connection opened by a
\* reconnect
MaxReconnectLines == 2

\* the number of CREATE_TUNNEL lines the host reads while a client asks the
\* same relay for a session
MaxEndpointLines == 1

\* the number of messages a client sends on one stream
MaxFeedEvents == 4

\* the number of mouse and scroll events of one overlay
MaxOverlayEvents == 3

\* the number of points MouseMoved records on one overlay
MaxPoints == 3

\* the number of discrete events (button, scroll, rune) of one overlay
MaxDiscrete == 2

\* the number of input events handleInputEvents takes from the channel
MaxHandled == 2

\* the number of frames sendScreenFeed sends on one stream
MaxFrames == 4

\* the capacity of inputEvents in the model; it is 120 in GetFeed
InputEventsCap == 2

\* the capacity of the channel behind the overlay in the model
OverlayChanCap == 1

-----------------------------------------------------------------------------
(* Program constants *)

effectiveHostIDPrefix == "EFFECTIVE_HOST_ID:"

ConnectRetrySeconds == 10

RegisterRetrySeconds == 5

ReadLoopRetrySeconds == 5

\* the length of the token prefix used in log and status texts, sessionToken[:6]
TokenPrefixLen == 6

\* initialHostID of main: the -hostID flag or generateRandomHostID(4)
initialHostID == "a1b2c3d4"

\* s.localGrpcAddr
localGrpcAddr == <<"[::]", ":", "32212">>

-----------------------------------------------------------------------------
(* Text helpers *)

SP == " "

RECURSIVE TrimLeft(_)
TrimLeft(s) == IF s # <<>> /\ Head(s) = SP THEN TrimLeft(Tail(s)) ELSE s

RECURSIVE TrimRight(_)
TrimRight(s) ==
    IF s # <<>> /\ s[Len(s)] = SP THEN TrimRight(SubSeq(s, 1, Len(s) - 1)) ELSE s

\* strings.TrimSpace
TrimSpace(s) == TrimRight(TrimLeft(s))

\* strings.Fields: the maximal runs of non-blank characters
Fields(s) == SelectSeq(s, LAMBDA w : w # SP)

\* strings.Join(elems, " ")
RECURSIVE Join(_)
Join(elems) ==
    IF elems = <<>> THEN <<>>
    ELSE IF Len(elems) = 1 THEN elems
    ELSE <<Head(elems), SP>> \o Join(Tail(elems))

\* fmt.Sprintf("%t", b)
FormatBool(b) == IF b THEN "true" ELSE "false"

\* net.SplitHostPort: the host of "host:port"; <<>> stands for the error result
SplitHostPortOk(addr) == Len(addr) = 3 /\ addr[2] = ":"

SplitHostPort(addr) == IF SplitHostPortOk(addr) THEN <<addr[1], addr[3]>> ELSE <<>>

\* net.JoinHostPort
JoinHostPort(host, port) == <<host, ":", port>>

\* bcrypt: the hash of a plaintext, and CompareHashAndPassword (TRUE when it returns nil)
BcryptHash(plain) == <<"$2a$">> \o plain

CompareHashAndPassword(hash, plain) == hash = BcryptHash(plain)

-----------------------------------------------------------------------------
(* The inputs the model draws from *)

LongToken == "tok4f9a1"

OtherToken == "tok7c2e5"

ShortToken == "tk9"

SessionTokens == {LongToken, OtherToken, ShortToken}

Secret == <<"open", SP, "sesame">>

\* lines the relay may send on the control connection, without the final "\n"
RelayLines ==
    { <<SP>>,
      <<"HOST_REGISTERED">>,
      <<"HOST_REGISTERED", SP, "hostA">>,
      <<"HOST_REGISTERED", SP, "hostB">>,
      <<"VERIFY_PASSWORD_REQUEST">>,
      <<"VERIFY_PASSWORD_REQUEST", SP, LongToken>>,
      <<"VERIFY_PASSWORD_REQUEST", SP, OtherToken, SP, "open", SP, SP, "sesame", SP>>,
      <<"VERIFY_PASSWORD_REQUEST", SP, ShortToken, SP, "guess">>,
      <<"CREATE_TUNNEL", SP, "40001">>,
      <<"CREATE_TUNNEL", SP, "40001", SP, LongToken>>,
      <<"CREATE_TUNNEL", SP, "40002", SP, OtherToken>>,
      <<"CREATE_TUNNEL", SP, "40003", SP, ShortToken>>,
      <<"PING">> }

PasswordHashes == { <<>>, BcryptHash(Secret), <<"not-a-bcrypt-hash">> }

RelayAddrs == { <<"relay.example", ":", "34000">>, <<"relay.example">> }


-----------------------------------------------------------------------------
(* main *)

\* fmt.Fprintf(os.Stdout, "%s%s\n", effectiveHostIDPrefix, id)
IdentityLine(id) == <<effectiveHostIDPrefix, id, "\n">>

\* the service of the host after grpc.NewServer, with nobody asking for its stop
ShutdownIdle ==
    /\ grpcServer = "serving"
    /\ gracefulStops = 0
    /\ forceStops = 0
    /\ shutdowns = <<>>
    /\ uiPc = "running"

\* the launcher before a session attempt
LauncherIdle ==
    /\ targetHostID = ""
    /\ plainTextPassword = ""
    /\ relayControlAddr = <<>>
    /\ cvrPc = "idle"
    /\ clientConn = "nil"
    /\ clientOut = <<>>
    /\ response = <<>>
    /\ result = <<>>
    /\ outcome = ""
    /\ launches = <<>>

\* no remote-control stream is open on the host and no overlay on a client
InputIdle ==
    /\ feed = <<>>
    /\ overlay = <<>>

\* no call of the helper functions is being looked at
CallIdle ==
    /\ idCall = <<>>
    /\ errCall = <<>>

\* the process after flag.Parse and the construction of the server, with the
\* number of lines the relay is going to send
Start(lines) ==
    /\ enableRelay \in BOOLEAN
    /\ headless \in BOOLEAN
    /\ relayServerAddr \in RelayAddrs
    /\ sessionPasswordHash \in PasswordHashes
    /\ mainPc = "start"
    /\ stdout = <<>>
    /\ pc = "idle"
    /\ controlConn = "nil"
    /\ parts = <<>>
    /\ currentRelayHostID = ""
    /\ ctrlOut = <<>>
    /\ lastLog = ""
    /\ sleepFor = 0
    /\ lineBudget = lines
    /\ vprRequests = <<>>
    /\ registrations = <<>>
    /\ tunnels = <<>>
    /\ peerBudget = 0
    /\ panicked = FALSE
    /\ LauncherIdle
    /\ ShutdownIdle
    /\ InputIdle
    /\ CallIdle

Init == Start(MaxLines)

FairInit == Start(MaxFairLines)

\* main from the GUI set-up to the start of the registration goroutine: in direct
\* mode the identity line is printed by the GUI branch (when not headless) and by
\* the common branch; in relay mode the registration loop is started.
MainStartup ==
    /\ ~panicked
    /\ mainPc = "start"
    /\ mainPc' = "running"
    /\ stdout' = stdout
                 \o (IF ~headless /\ ~enableRelay THEN <<IdentityLine(initialHostID)>> ELSE <<>>)
                 \o (IF ~enableRelay THEN <<IdentityLine(initialHostID)>> ELSE <<>>)
    /\ currentRelayHostID' = IF ~headless /\ ~enableRelay THEN initialHostID ELSE currentRelayHostID
    /\ pc' = IF enableRelay THEN "connect" ELSE pc
    /\ UNCHANGED <<inputVars, callVars, shutdownVars, launcherVars, config, controlConn, parts, ctrlOut, lastLog, sleepFor, lineBudget,
                   vprRequests, registrations, tunnels, peerBudget, panicked>>

-----------------------------------------------------------------------------
(* manageRelayRegistrationAndTunnels *)

\* a write call on the control connection and whether it returned no error
WriteCall(line, ok) == [line |-> line, ok |-> ok]

RegisterCmd(hint) == <<"REGISTER_HOST", SP, hint, "\n">>

VerifyPasswordResponse(token, isValid) ==
    <<"VERIFY_PASSWORD_RESPONSE", SP, token, SP, FormatBool(isValid), "\n">>

\* net.DialTimeout to the relay control address succeeds
RelayConnectOk ==
    /\ ~panicked
    /\ pc = "connect"
    /\ SplitHostPortOk(relayServerAddr)
    /\ controlConn' = "open"
    /\ ctrlOut' = <<>>
    /\ vprRequests' = <<>>
    /\ lastLog' = "Connected to relay control server"
    /\ pc' = "register"
    /\ UNCHANGED <<inputVars, callVars, shutdownVars, launcherVars, config, mainPc, stdout, parts, currentRelayHostID, sleepFor,
                   lineBudget, registrations, tunnels, peerBudget, panicked>>

\* net.DialTimeout fails: sleep 10 s and try again
RelayConnectFail ==
    /\ ~panicked
    /\ pc = "connect"
    /\ lastLog' = "Failed to connect to relay control server"
    /\ sleepFor' = ConnectRetrySeconds
    /\ pc' = "sleep"
    /\ UNCHANGED <<inputVars, callVars, shutdownVars, launcherVars, config, mainPc, stdout, controlConn, parts, currentRelayHostID,
                   ctrlOut, lineBudget, vprRequests, registrations, tunnels,
                   peerBudget, panicked>>

\* RegisterHostOk with a slip: once the relay has assigned an identity, that
\* identity is sent as the hint
RegisterHostOkAssigned ==
    /\ ~panicked
    /\ pc = "register"
    /\ ctrlOut' = Append(ctrlOut,
                    WriteCall(RegisterCmd(IF currentRelayHostID # "" THEN currentRelayHostID
                                          ELSE initialHostID), TRUE))
    /\ lastLog' = "Sent REGISTER_HOST"
    /\ pc' = "read"
    /\ UNCHANGED <<inputVars, callVars, shutdownVars, launcherVars, config, mainPc, stdout, controlConn, parts, currentRelayHostID,
                   sleepFor, lineBudget, vprRequests, registrations, tunnels,
                   peerBudget, panicked>>

\* REGISTER_HOST is written with the local identity hint
RegisterHostOk ==
    /\ ~panicked
    /\ pc = "register"
    /\ ctrlOut' = Append(ctrlOut, WriteCall(RegisterCmd(initialHostID), TRUE))
    /\ lastLog' = "Sent REGISTER_HOST"
    /\ pc' = "read"
    /\ UNCHANGED <<inputVars, callVars, shutdownVars, launcherVars, config, mainPc, stdout, controlConn, parts, currentRelayHostID,
                   sleepFor, lineBudget, vprRequests, registrations, tunnels,
                   peerBudget, panicked>>

\* RegisterHostFail with a slip: the function returns instead of retrying
RegisterHostFailReturn ==
    /\ ~panicked
    /\ pc = "register"
    /\ ctrlOut' = Append(ctrlOut, WriteCall(RegisterCmd(initialHostID), FALSE))
    /\ lastLog' = "Failed to send REGISTER_HOST"
    /\ controlConn' = "closed"
    /\ pc' = "returned"
    /\ UNCHANGED <<inputVars, callVars, shutdownVars, launcherVars, config, mainPc, stdout, parts, currentRelayHostID, sleepFor,
                   lineBudget, vprRequests, registrations, tunnels, peerBudget, panicked>>

\* the write of REGISTER_HOST fails: close, sleep 5 s and try again
RegisterHostFail ==
    /\ ~panicked
    /\ pc = "register"
    /\ ctrlOut' = Append(ctrlOut, WriteCall(RegisterCmd(initialHostID), FALSE))
    /\ lastLog' = "Failed to send REGISTER_HOST"
    /\ controlConn' = "closed"
    /\ sleepFor' = RegisterRetrySeconds
    /\ pc' = "sleep"
    /\ UNCHANGED <<inputVars, callVars, shutdownVars, launcherVars, config, mainPc, stdout, parts, currentRelayHostID, lineBudget,
                   vprRequests, registrations, tunnels, peerBudget, panicked>>

\* reader.ReadString('\n') returns a line: trim it, split it into fields, and
\* continue with the next line when there is no field
ReadLine(line) ==
    /\ ~panicked
    /\ pc = "read"
    /\ lineBudget > 0
    /\ lineBudget' = lineBudget - 1
    /\ LET fields == Fields(TrimSpace(line)) IN
       /\ parts' = fields
       /\ lastLog' = "Received from relay"
       /\ pc' = IF Len(fields) = 0 THEN "read" ELSE "dispatch"
       /\ vprRequests' =
            IF Len(fields) >= 2 /\ fields[1] = "VERIFY_PASSWORD_REQUEST"
            THEN Append(vprRequests, fields[2]) ELSE vprRequests
       /\ registrations' =
            IF Len(fields) >= 2 /\ fields[1] = "HOST_REGISTERED"
            THEN Append(registrations, fields[2]) ELSE registrations
    /\ UNCHANGED <<inputVars, callVars, shutdownVars, launcherVars, config, mainPc, stdout, controlConn, currentRelayHostID, ctrlOut,
                   sleepFor, tunnels, peerBudget, panicked>>

\* ReadError with a slip: the connection is not closed before the loop goes on
ReadErrorKeepsConn(err) ==
    /\ ~panicked
    /\ pc = "read"
    /\ lastLog' = IF err = "EOF" THEN "Control connection closed (EOF)"
                  ELSE "Error reading from relay control connection"
    /\ sleepFor' = ReadLoopRetrySeconds
    /\ pc' = "sleep"
    /\ UNCHANGED <<inputVars, callVars, shutdownVars, launcherVars, config, mainPc, stdout, controlConn, parts, currentRelayHostID, ctrlOut,
                   lineBudget, vprRequests, registrations, tunnels, peerBudget, panicked>>

\* ReadError with a slip: the loop dials again at once, without the sleep
ReadErrorRedial(err) ==
    /\ ~panicked
    /\ pc = "read"
    /\ lastLog' = IF err = "EOF" THEN "Control connection closed (EOF)"
                  ELSE "Error reading from relay control connection"
    /\ controlConn' = "closed"
    /\ sleepFor' = 0
    /\ pc' = "connect"
    /\ UNCHANGED <<inputVars, callVars, shutdownVars, launcherVars, config, mainPc, stdout, parts, currentRelayHostID, ctrlOut,
                   lineBudget, vprRequests, registrations, tunnels, peerBudget, panicked>>

\* reader.ReadString fails, with io.EOF or another error: close and leave the read loop
ReadError(err) ==
    /\ ~panicked
    /\ pc = "read"
    /\ lastLog' = IF err = "EOF" THEN "Control connection closed (EOF)"
                  ELSE "Error reading from relay control connection"
    /\ controlConn' = "closed"
    /\ sleepFor' = ReadLoopRetrySeconds
    /\ pc' = "sleep"
    /\ UNCHANGED <<inputVars, callVars, shutdownVars, launcherVars, config, mainPc, stdout, parts, currentRelayHostID, ctrlOut,
                   lineBudget, vprRequests, registrations, tunnels, peerBudget, panicked>>

\* time.Sleep returns and the outer loop starts its next iteration
BackoffElapsed ==
    /\ ~panicked
    /\ pc = "sleep"
    /\ sleepFor' = 0
    /\ pc' = "connect"
    /\ lastLog' = "Attempting to connect to relay control server"
    /\ UNCHANGED <<inputVars, callVars, shutdownVars, launcherVars, config, mainPc, stdout, controlConn, parts, currentRelayHostID,
                   ctrlOut, lineBudget, vprRequests, registrations, tunnels,
                   peerBudget, panicked>>

\* HostRegistered with a slip: the identity line is printed only when the
\* identity changes
HostRegisteredPrintOnChange ==
    /\ ~panicked
    /\ pc = "dispatch"
    /\ parts[1] = "HOST_REGISTERED"
    /\ pc' = "read"
    /\ IF Len(parts) < 2
       THEN /\ lastLog' = "Invalid HOST_REGISTERED response"
            /\ UNCHANGED <<currentRelayHostID, stdout>>
       ELSE /\ currentRelayHostID' = parts[2]
            /\ stdout' = IF parts[2] # currentRelayHostID
                         THEN Append(stdout, IdentityLine(parts[2])) ELSE stdout
            /\ lastLog' = "Effective Host ID (relay mode)"
    /\ UNCHANGED <<inputVars, callVars, shutdownVars, launcherVars, config, mainPc, controlConn, parts, ctrlOut, sleepFor, lineBudget,
                   vprRequests, registrations, tunnels, peerBudget, panicked>>

\* case "HOST_REGISTERED"
HostRegistered ==
    /\ ~panicked
    /\ pc = "dispatch"
    /\ parts[1] = "HOST_REGISTERED"
    /\ pc' = "read"
    /\ IF Len(parts) < 2
       THEN /\ lastLog' = "Invalid HOST_REGISTERED response"
            /\ UNCHANGED <<currentRelayHostID, stdout>>
       ELSE /\ currentRelayHostID' = parts[2]
            /\ stdout' = Append(stdout, IdentityLine(parts[2]))
            /\ lastLog' = "Effective Host ID (relay mode)"
    /\ UNCHANGED <<inputVars, callVars, shutdownVars, launcherVars, config, mainPc, controlConn, parts, ctrlOut, sleepFor, lineBudget,
                   vprRequests, registrations, tunnels, peerBudget, panicked>>

\* IsValid with a slip: only a mismatch denies, any other error of the
\* comparison grants access
IsValidFailOpen(hash, attempt) ==
    IF hash = <<>> THEN TRUE
    ELSE IF hash[1] # "$2a$" THEN TRUE
    ELSE CompareHashAndPassword(hash, attempt)

\* the verdict of case "VERIFY_PASSWORD_REQUEST"
IsValid(hash, attempt) ==
    IF hash = <<>> THEN TRUE ELSE CompareHashAndPassword(hash, attempt)

\* VerifyPasswordRequest with a slip: a denied attempt gets no response
VerifyPasswordRequestSilentDenial(sendOk) ==
    /\ ~panicked
    /\ pc = "dispatch"
    /\ parts[1] = "VERIFY_PASSWORD_REQUEST"
    /\ pc' = "read"
    /\ IF Len(parts) < 2
       THEN /\ sendOk
            /\ lastLog' = "Invalid VERIFY_PASSWORD_REQUEST (missing token)"
            /\ UNCHANGED ctrlOut
       ELSE LET requestToken == parts[2]
                plainTextPasswordAttempt ==
                    IF Len(parts) >= 3 THEN Join(SubSeq(parts, 3, Len(parts))) ELSE <<>>
                isValid == IsValid(sessionPasswordHash, plainTextPasswordAttempt)
            IN IF isValid
               THEN /\ ctrlOut' = Append(ctrlOut,
                          WriteCall(VerifyPasswordResponse(requestToken, isValid), sendOk))
                    /\ lastLog' = IF sendOk THEN "Sent to relay"
                                  ELSE "Failed to send VERIFY_PASSWORD_RESPONSE"
               ELSE /\ sendOk
                    /\ lastLog' = "Password MISMATCH"
                    /\ UNCHANGED ctrlOut
    /\ UNCHANGED <<inputVars, callVars, shutdownVars, launcherVars, config, mainPc, stdout, controlConn, parts, currentRelayHostID,
                   sleepFor, lineBudget, vprRequests, registrations, tunnels,
                   peerBudget, panicked>>

\* VerifyPasswordRequest with a slip: the response carries the token of the
\* first request of the connection
VerifyPasswordRequestStaleToken(sendOk) ==
    /\ ~panicked
    /\ pc = "dispatch"
    /\ parts[1] = "VERIFY_PASSWORD_REQUEST"
    /\ pc' = "read"
    /\ IF Len(parts) < 2
       THEN /\ sendOk
            /\ lastLog' = "Invalid VERIFY_PASSWORD_REQUEST (missing token)"
            /\ UNCHANGED ctrlOut
       ELSE LET requestToken == vprRequests[1]
                plainTextPasswordAttempt ==
                    IF Len(parts) >= 3 THEN Join(SubSeq(parts, 3, Len(parts))) ELSE <<>>
                isValid == IsValid(sessionPasswordHash, plainTextPasswordAttempt)
            IN /\ ctrlOut' = Append(ctrlOut,
                       WriteCall(VerifyPasswordResponse(requestToken, isValid), sendOk))
               /\ lastLog' = IF sendOk THEN "Sent to relay"
                             ELSE "Failed to send VERIFY_PASSWORD_RESPONSE"
    /\ UNCHANGED <<inputVars, callVars, shutdownVars, launcherVars, config, mainPc, stdout, controlConn, parts, currentRelayHostID,
                   sleepFor, lineBudget, vprRequests, registrations, tunnels,
                   peerBudget, panicked>>

\* case "VERIFY_PASSWORD_REQUEST"; the write of the response may fail
VerifyPasswordRequest(sendOk) ==
    /\ ~panicked
    /\ pc = "dispatch"
    /\ parts[1] = "VERIFY_PASSWORD_REQUEST"
    /\ pc' = "read"
    /\ IF Len(parts) < 2
       THEN /\ sendOk
            /\ lastLog' = "Invalid VERIFY_PASSWORD_REQUEST (missing token)"
            /\ UNCHANGED ctrlOut
       ELSE LET requestToken == parts[2]
                plainTextPasswordAttempt ==
                    IF Len(parts) >= 3 THEN Join(SubSeq(parts, 3, Len(parts))) ELSE <<>>
                isValid == IsValid(sessionPasswordHash, plainTextPasswordAttempt)
            IN /\ ctrlOut' = Append(ctrlOut,
                       WriteCall(VerifyPasswordResponse(requestToken, isValid), sendOk))
               /\ lastLog' = IF sendOk THEN "Sent to relay"
                             ELSE "Failed to send VERIFY_PASSWORD_RESPONSE"
    /\ UNCHANGED <<inputVars, callVars, shutdownVars, launcherVars, config, mainPc, stdout, controlConn, parts, currentRelayHostID,
                   sleepFor, lineBudget, vprRequests, registrations, tunnels,
                   peerBudget, panicked>>

\* a handleHostSideTunnel goroutine right after its go statement
NewTunnel(localGrpcServiceAddr, relayDataAddrForHost, sessionToken, registeredHostID) ==
    [ localGrpcServiceAddr |-> localGrpcServiceAddr,
      relayDataAddrForHost |-> relayDataAddrForHost,
      sessionToken         |-> sessionToken,
      registeredHostID     |-> registeredHostID,
      pc                   |-> "start",
      hostProxyConn        |-> "nil",
      localServiceConn     |-> "nil",
      relayPeer            |-> "open",
      localPeer            |-> "open",
      fromRelay            |-> <<>>,
      fromLocal            |-> <<>>,
      sentByRelay          |-> <<>>,
      sentByLocal          |-> <<>>,
      toRelay              |-> <<>>,
      toLocal              |-> <<>>,
      identWrites          |-> 0,
      wg                   |-> 0,
      r2l                  |-> [pc |-> "idle", buf |-> <<>>, err |-> <<>>, log |-> ""],
      l2r                  |-> [pc |-> "idle", buf |-> <<>>, err |-> <<>>, log |-> ""] ]

\* CreateTunnel with a slip: the check that an identity is assigned is missing
CreateTunnelNoIdentityCheck ==
    /\ ~panicked
    /\ pc = "dispatch"
    /\ parts[1] = "CREATE_TUNNEL"
    /\ IF Len(parts) < 3
       THEN /\ lastLog' = "Invalid CREATE_TUNNEL command"
            /\ pc' = "read"
            /\ UNCHANGED <<tunnels, panicked>>
       ELSE IF ~SplitHostPortOk(relayServerAddr)
       THEN /\ lastLog' = "Could not parse host IP from relayCtrlAddrFull"
            /\ pc' = "read"
            /\ UNCHANGED <<tunnels, panicked>>
       ELSE LET relayDynamicPortStr == parts[2]
                sessionToken == parts[3]
                relayHostIP == SplitHostPort(relayServerAddr)[1]
                relayDataAddrForHost == JoinHostPort(relayHostIP, relayDynamicPortStr)
            IN IF ~headless /\ Len(sessionToken) < TokenPrefixLen
               THEN /\ panicked' = TRUE
                    /\ lastLog' = "panic: slice bounds out of range"
                    /\ UNCHANGED <<tunnels, pc>>
               ELSE /\ tunnels' = Append(tunnels,
                           NewTunnel(localGrpcAddr, relayDataAddrForHost,
                                     sessionToken, currentRelayHostID))
                    /\ lastLog' = "Host will connect to relay data endpoint"
                    /\ pc' = "read"
                    /\ UNCHANGED panicked
    /\ UNCHANGED <<inputVars, callVars, shutdownVars, launcherVars, config, mainPc, stdout, controlConn, parts, currentRelayHostID,
                   ctrlOut, sleepFor, lineBudget, vprRequests, registrations,
                   peerBudget>>


\* CreateTunnel with a slip: the data endpoint gets the port of the control
\* address instead of the dynamic port
CreateTunnelControlPort ==
    /\ ~panicked
    /\ pc = "dispatch"
    /\ parts[1] = "CREATE_TUNNEL"
    /\ IF Len(parts) < 3
       THEN /\ lastLog' = "Invalid CREATE_TUNNEL command"
            /\ pc' = "read"
            /\ UNCHANGED <<tunnels, panicked>>
       ELSE IF currentRelayHostID = ""
       THEN /\ lastLog' = "Received CREATE_TUNNEL before host ID was registered"
            /\ pc' = "read"
            /\ UNCHANGED <<tunnels, panicked>>
       ELSE IF ~SplitHostPortOk(relayServerAddr)
       THEN /\ lastLog' = "Could not parse host IP from relayCtrlAddrFull"
            /\ pc' = "read"
            /\ UNCHANGED <<tunnels, panicked>>
       ELSE LET relayDynamicPortStr == parts[2]
                sessionToken == parts[3]
                relayHostIP == SplitHostPort(relayServerAddr)[1]
                relayDataAddrForHost ==
                    JoinHostPort(relayHostIP, SplitHostPort(relayServerAddr)[2])
            IN IF ~headless /\ Len(sessionToken) < TokenPrefixLen
               THEN /\ panicked' = TRUE
                    /\ lastLog' = "panic: slice bounds out of range"
                    /\ UNCHANGED <<tunnels, pc>>
               ELSE /\ tunnels' = Append(tunnels,
                           NewTunnel(localGrpcAddr, relayDataAddrForHost,
                                     sessionToken, currentRelayHostID))
                    /\ lastLog' = "Host will connect to relay data endpoint"
                    /\ pc' = "read"
                    /\ UNCHANGED panicked
    /\ UNCHANGED <<inputVars, callVars, shutdownVars, launcherVars, config, mainPc, stdout, controlConn, parts, currentRelayHostID,
                   ctrlOut, sleepFor, lineBudget, vprRequests, registrations,
                   peerBudget>>

\* case "CREATE_TUNNEL": the arity and identity checks, the data endpoint, the
\* status text with sessionToken[:6] (GUI only) and the go statement
CreateTunnel ==
    /\ ~panicked
    /\ pc = "dispatch"
    /\ parts[1] = "CREATE_TUNNEL"
    /\ IF Len(parts) < 3
       THEN /\ lastLog' = "Invalid CREATE_TUNNEL command"
            /\ pc' = "read"
            /\ UNCHANGED <<tunnels, panicked>>
       ELSE IF currentRelayHostID = ""
       THEN /\ lastLog' = "Received CREATE_TUNNEL before host ID was registered"
            /\ pc' = "read"
            /\ UNCHANGED <<tunnels, panicked>>
       ELSE IF ~SplitHostPortOk(relayServerAddr)
       THEN /\ lastLog' = "Could not parse host IP from relayCtrlAddrFull"
            /\ pc' = "read"
            /\ UNCHANGED <<tunnels, panicked>>
       ELSE LET relayDynamicPortStr == parts[2]
                sessionToken == parts[3]
                relayHostIP == SplitHostPort(relayServerAddr)[1]
                relayDataAddrForHost == JoinHostPort(relayHostIP, relayDynamicPortStr)
            IN IF ~headless /\ Len(sessionToken) < TokenPrefixLen
               THEN /\ panicked' = TRUE
                    /\ lastLog' = "panic: slice bounds out of range"
                    /\ UNCHANGED <<tunnels, pc>>
               ELSE /\ tunnels' = Append(tunnels,
                           NewTunnel(localGrpcAddr, relayDataAddrForHost,
                                     sessionToken, currentRelayHostID))
                    /\ lastLog' = "Host will connect to relay data endpoint"
                    /\ pc' = "read"
                    /\ UNCHANGED panicked
    /\ UNCHANGED <<inputVars, callVars, shutdownVars, launcherVars, config, mainPc, stdout, controlConn, parts, currentRelayHostID,
                   ctrlOut, sleepFor, lineBudget, vprRequests, registrations,
                   peerBudget>>

\* UnknownCommand with a slip: an unknown command ends the read loop
UnknownCommandDisconnect ==
    /\ ~panicked
    /\ pc = "dispatch"
    /\ parts[1] \notin {"HOST_REGISTERED", "VERIFY_PASSWORD_REQUEST", "CREATE_TUNNEL"}
    /\ lastLog' = "Unknown command from relay server"
    /\ controlConn' = "closed"
    /\ sleepFor' = ReadLoopRetrySeconds
    /\ pc' = "sleep"
    /\ UNCHANGED <<inputVars, callVars, shutdownVars, launcherVars, config, mainPc, stdout, parts, currentRelayHostID,
                   ctrlOut, lineBudget, vprRequests, registrations, tunnels,
                   peerBudget, panicked>>

\* default: an unknown command is logged
UnknownCommand ==
    /\ ~panicked
    /\ pc = "dispatch"
    /\ parts[1] \notin {"HOST_REGISTERED", "VERIFY_PASSWORD_REQUEST", "CREATE_TUNNEL"}
    /\ lastLog' = "Unknown command from relay server"
    /\ pc' = "read"
    /\ UNCHANGED <<inputVars, callVars, shutdownVars, launcherVars, config, mainPc, stdout, controlConn, parts, currentRelayHostID,
                   ctrlOut, sleepFor, lineBudget, vprRequests, registrations, tunnels,
                   peerBudget, panicked>>

ControlNext ==
    \/ MainStartup
    \/ RelayConnectOk
    \/ RelayConnectFail
    \/ RegisterHostOk
    \/ RegisterHostFail
    \/ \E line \in RelayLines : ReadLine(line)
    \/ \E err \in {"EOF", "other"} : ReadError(err)
    \/ BackoffElapsed
    \/ HostRegistered
    \/ \E sendOk \in BOOLEAN : VerifyPasswordRequest(sendOk)
    \/ CreateTunnel
    \/ UnknownCommand

-----------------------------------------------------------------------------
(* Errors of the network calls, as the words of their messages *)

NoError == <<>>

EOF == <<"EOF">>

ErrClosed == <<"use", "of", "closed", "network", "connection">>

ErrReset == <<"read:", "connection", "reset", "by", "peer">>

ErrBrokenPipe == <<"write:", "broken", "pipe">>

ErrTimedOut == <<"read:", "connection", "timed", "out">>

\* strings.Contains on the words of a message
Contains(s, sub) ==
    \E k \in 0..(Len(s) - Len(sub)) : SubSeq(s, k + 1, k + Len(sub)) = sub

\* isNetworkCloseError with a slip: the test for "broken pipe" is missing
isNetworkCloseErrorNoPipe(err) ==
    IF err = NoError THEN FALSE
    ELSE IF err = EOF THEN TRUE
    ELSE \/ Contains(err, <<"use", "of", "closed", "network", "connection">>)
         \/ Contains(err, <<"connection", "reset", "by", "peer">>)
         \/ Contains(err, <<"forcibly", "closed">>)

\* the classification of an error that ended a read, a write or a copy
isNetworkCloseError(err) ==
    IF err = NoError THEN FALSE
    ELSE IF err = EOF THEN TRUE
    ELSE \/ Contains(err, <<"use", "of", "closed", "network", "connection">>)
         \/ Contains(err, <<"connection", "reset", "by", "peer">>)
         \/ Contains(err, <<"broken", "pipe">>)
         \/ Contains(err, <<"forcibly", "closed">>)

-----------------------------------------------------------------------------
(* handleHostSideTunnel *)

TunnelIds == 1..Len(tunnels)

PayloadBytes == {"p", "q"}

\* how a peer may end its side of a connection: FIN, RST, or silence until the
\* keep-alive gives up
PeerEnds == {"closed", "reset", "lost"}

Directions == {"r2l", "l2r"}

\* fmt.Sprintf("SESSION_TOKEN %s HOST_PROXY\n", sessionToken)
IdentCmd(sessionToken) == <<"SESSION_TOKEN", SP, sessionToken, SP, "HOST_PROXY", "\n">>

\* the fields of a tunnel a copy loop works on: io.Copy(dst, src)
SrcConn(dir) == IF dir = "r2l" THEN "hostProxyConn" ELSE "localServiceConn"

DstConn(dir) == IF dir = "r2l" THEN "localServiceConn" ELSE "hostProxyConn"

PeerOf(conn) == IF conn = "hostProxyConn" THEN "relayPeer" ELSE "localPeer"

InboundOf(conn) == IF conn = "hostProxyConn" THEN "fromRelay" ELSE "fromLocal"

OutboundOf(conn) == IF conn = "hostProxyConn" THEN "toRelay" ELSE "toLocal"

\* everything the peer of a connection has sent on it
SentOf(conn) == IF conn = "hostProxyConn" THEN "sentByRelay" ELSE "sentByLocal"

\* net.Conn.Close: closing a closed connection only returns an error
Close(state) == "closed"

SetTunnel(i, t) ==
    /\ tunnels' = [tunnels EXCEPT ![i] = t]
    /\ UNCHANGED <<inputVars, callVars, shutdownVars, launcherVars, config, mainPc, stdout, ctrlVars, peerBudget, panicked>>

\* logCtx := ... sessionToken[:6] ...: panics when the token has fewer than 6 bytes
TunnelStart(i) ==
    /\ ~panicked
    /\ tunnels[i].pc = "start"
    /\ IF Len(tunnels[i].sessionToken) < TokenPrefixLen
       THEN /\ panicked' = TRUE
            /\ UNCHANGED tunnels
       ELSE /\ tunnels' = [tunnels EXCEPT ![i].pc = "dialRelay"]
            /\ UNCHANGED panicked
    /\ UNCHANGED <<inputVars, callVars, shutdownVars, launcherVars, config, mainPc, stdout, ctrlVars, peerBudget>>

\* net.DialTimeout to the relay data endpoint succeeds
DialRelayOk(i) ==
    /\ ~panicked
    /\ tunnels[i].pc = "dialRelay"
    /\ SetTunnel(i, [tunnels[i] EXCEPT !.hostProxyConn = "open", !.pc = "ident"])

\* net.DialTimeout to the relay data endpoint fails: return
DialRelayFail(i) ==
    /\ ~panicked
    /\ tunnels[i].pc = "dialRelay"
    /\ SetTunnel(i, [tunnels[i] EXCEPT !.pc = "done"])

\* the identification line is written to the relay data connection
SendIdentOk(i) ==
    /\ ~panicked
    /\ tunnels[i].pc = "ident"
    /\ tunnels[i].relayPeer = "open"
    /\ SetTunnel(i, [tunnels[i] EXCEPT
                        !.toRelay = @ \o IdentCmd(tunnels[i].sessionToken),
                        !.identWrites = @ + 1,
                        !.pc = "dialLocal"])

\* SendIdentFail with a slip: the error of the write is ignored
SendIdentFailIgnored(i) ==
    /\ ~panicked
    /\ tunnels[i].pc = "ident"
    /\ SetTunnel(i, [tunnels[i] EXCEPT
                        !.identWrites = @ + 1,
                        !.pc = "dialLocal"])

\* the write of the identification line fails: return, the deferred Close runs
SendIdentFail(i) ==
    /\ ~panicked
    /\ tunnels[i].pc = "ident"
    /\ SetTunnel(i, [tunnels[i] EXCEPT
                        !.identWrites = @ + 1,
                        !.hostProxyConn = Close(@),
                        !.pc = "done"])

\* net.DialTimeout to the local service succeeds: wg.Add(2) and both copy
\* goroutines are started, then wg.Wait()
DialLocalOk(i) ==
    /\ ~panicked
    /\ tunnels[i].pc = "dialLocal"
    /\ SetTunnel(i, [tunnels[i] EXCEPT
                        !.localServiceConn = "open",
                        !.wg = 2,
                        !.r2l.pc = "read",
                        !.l2r.pc = "read",
                        !.pc = "wait"])

\* DialLocalFail with a slip: the relay data connection is left open
DialLocalFailLeak(i) ==
    /\ ~panicked
    /\ tunnels[i].pc = "dialLocal"
    /\ SetTunnel(i, [tunnels[i] EXCEPT !.pc = "done"])

\* net.DialTimeout to the local service fails: return, the deferred Close runs
DialLocalFail(i) ==
    /\ ~panicked
    /\ tunnels[i].pc = "dialLocal"
    /\ SetTunnel(i, [tunnels[i] EXCEPT
                        !.hostProxyConn = Close(@),
                        !.pc = "done"])

\* the result of src.Read inside io.Copy when it does not block: an error, or
\* NoError with data to take from the inbound queue
ReadResult(t, src) ==
    IF t[src] # "open" THEN ErrClosed
    ELSE IF t[InboundOf(src)] # <<>> THEN NoError
    ELSE IF t[PeerOf(src)] = "closed" THEN EOF
    ELSE IF t[PeerOf(src)] = "reset" THEN ErrReset
    ELSE ErrTimedOut

ReadBlocks(t, src) ==
    t[src] = "open" /\ t[InboundOf(src)] = <<>> /\ t[PeerOf(src)] = "open"

\* the result of dst.Write inside io.Copy
WriteResult(t, dst) ==
    IF t[dst] # "open" THEN ErrClosed
    ELSE IF t[PeerOf(dst)] = "open" THEN NoError
    ELSE IF t[PeerOf(dst)] = "reset" THEN ErrReset
    ELSE ErrBrokenPipe

\* the log line after io.Copy returned errCopy
CopyLog(errCopy) ==
    IF errCopy # NoError /\ ~isNetworkCloseError(errCopy) THEN "ERROR" ELSE "INFO"

\* io.Copy: one Read of src. Data goes to the buffer; io.EOF ends the copy with a
\* nil error; any other error ends it with that error.
CopyRead(i, dir) ==
    /\ ~panicked
    /\ tunnels[i][dir].pc = "read"
    /\ LET t == tunnels[i]
           src == SrcConn(dir)
           res == ReadResult(t, src)
       IN /\ ~ReadBlocks(t, src)
          /\ IF res = NoError
             THEN \E n \in 1..Len(t[InboundOf(src)]) :
                    SetTunnel(i, [t EXCEPT
                        ![dir].buf = SubSeq(t[InboundOf(src)], 1, n),
                        ![dir].pc = "write",
                        ![InboundOf(src)] = SubSeq(@, n + 1, Len(@))])
             ELSE LET errCopy == IF res = EOF THEN NoError ELSE res
                  IN SetTunnel(i, [t EXCEPT
                        ![dir].err = errCopy,
                        ![dir].log = CopyLog(errCopy),
                        ![dir].pc = "closeDst"])

\* CopyWrite with a slip: a buffer is written a second time
CopyWriteTwice(i, dir) ==
    /\ ~panicked
    /\ tunnels[i][dir].pc = "write"
    /\ LET t == tunnels[i]
           dst == DstConn(dir)
           res == WriteResult(t, dst)
       IN IF res = NoError
          THEN SetTunnel(i, [t EXCEPT
                    ![OutboundOf(dst)] = @ \o t[dir].buf \o t[dir].buf,
                    ![dir].buf = <<>>,
                    ![dir].pc = "read"])
          ELSE SetTunnel(i, [t EXCEPT
                    ![dir].err = res,
                    ![dir].log = CopyLog(res),
                    ![dir].pc = "closeDst"])

\* io.Copy: the Write of the buffer to dst
CopyWrite(i, dir) ==
    /\ ~panicked
    /\ tunnels[i][dir].pc = "write"
    /\ LET t == tunnels[i]
           dst == DstConn(dir)
           res == WriteResult(t, dst)
       IN IF res = NoError
          THEN SetTunnel(i, [t EXCEPT
                    ![OutboundOf(dst)] = @ \o t[dir].buf,
                    ![dir].buf = <<>>,
                    ![dir].pc = "read"])
          ELSE SetTunnel(i, [t EXCEPT
                    ![dir].err = res,
                    ![dir].log = CopyLog(res),
                    ![dir].pc = "closeDst"])

\* CopyCloseDst with a slip: a copy goroutine closes only the connection it reads
CopyCloseDstMissing(i, dir) ==
    /\ ~panicked
    /\ tunnels[i][dir].pc = "closeDst"
    /\ SetTunnel(i, [tunnels[i] EXCEPT ![dir].pc = "closeSrc"])

\* the deferred Close calls of a copy goroutine, last deferred first: the
\* destination of the copy, then its source
CopyCloseDst(i, dir) ==
    /\ ~panicked
    /\ tunnels[i][dir].pc = "closeDst"
    /\ SetTunnel(i, [tunnels[i] EXCEPT
                        ![DstConn(dir)] = Close(@),
                        ![dir].pc = "closeSrc"])

CopyCloseSrc(i, dir) ==
    /\ ~panicked
    /\ tunnels[i][dir].pc = "closeSrc"
    /\ SetTunnel(i, [tunnels[i] EXCEPT
                        ![SrcConn(dir)] = Close(@),
                        ![dir].pc = "wgDone"])

\* the deferred wg.Done()
CopyWgDone(i, dir) ==
    /\ ~panicked
    /\ tunnels[i][dir].pc = "wgDone"
    /\ SetTunnel(i, [tunnels[i] EXCEPT
                        !.wg = @ - 1,
                        ![dir].pc = "done"])

\* WgWait with a slip: wg.Add(1) for two goroutines, so Wait returns after the first
WgWaitForOne(t) == t.wg <= 1

\* wg.Wait() returns, the tunnel returns and its deferred Close calls run
WgWait(t) == t.wg = 0

\* TunnelReturn with a slip: the connections are kept in fields shared by the
\* tunnels, so the deferred Close calls of one tunnel close those of all
TunnelReturnClosesAll(i) ==
    /\ ~panicked
    /\ tunnels[i].pc = "wait"
    /\ WgWait(tunnels[i])
    /\ tunnels' = [j \in DOMAIN tunnels |->
                     [tunnels[j] EXCEPT
                        !.localServiceConn = IF @ = "nil" THEN @ ELSE Close(@),
                        !.hostProxyConn = IF @ = "nil" THEN @ ELSE Close(@),
                        !.pc = IF j = i THEN "done" ELSE @]]
    /\ UNCHANGED <<inputVars, callVars, shutdownVars, launcherVars, config, mainPc, stdout, ctrlVars, peerBudget, panicked>>

TunnelReturn(i) ==
    /\ ~panicked
    /\ tunnels[i].pc = "wait"
    /\ WgWait(tunnels[i])
    /\ SetTunnel(i, [tunnels[i] EXCEPT
                        !.localServiceConn = Close(@),
                        !.hostProxyConn = Close(@),
                        !.pc = "done"])

-----------------------------------------------------------------------------
(* The peers of a tunnel: the relay's data endpoint and the local service *)

\* a peer sends one payload byte on an established connection
PeerSend(i, conn, b) ==
    /\ ~panicked
    /\ peerBudget > 0
    /\ tunnels[i][conn] = "open"
    /\ tunnels[i][PeerOf(conn)] = "open"
    /\ tunnels' = [tunnels EXCEPT ![i][InboundOf(conn)] = Append(@, b),
                                  ![i][SentOf(conn)] = Append(@, b)]
    /\ peerBudget' = peerBudget - 1
    /\ UNCHANGED <<inputVars, callVars, shutdownVars, launcherVars, config, mainPc, stdout, ctrlVars, panicked>>

\* a peer ends its side of an established connection
PeerEnd(i, conn, how) ==
    /\ ~panicked
    /\ peerBudget > 0
    /\ tunnels[i][conn] = "open"
    /\ tunnels[i][PeerOf(conn)] = "open"
    /\ tunnels' = [tunnels EXCEPT ![i][PeerOf(conn)] = how]
    /\ peerBudget' = peerBudget - 1
    /\ UNCHANGED <<inputVars, callVars, shutdownVars, launcherVars, config, mainPc, stdout, ctrlVars, panicked>>

Conns == {"hostProxyConn", "localServiceConn"}

\* a tunnel up to the start of its copy loops
TunnelSetupNext ==
    \/ \E i \in TunnelIds : TunnelStart(i)
    \/ \E i \in TunnelIds : DialRelayOk(i)
    \/ \E i \in TunnelIds : DialRelayFail(i)
    \/ \E i \in TunnelIds : SendIdentOk(i)
    \/ \E i \in TunnelIds : SendIdentFail(i)
    \/ \E i \in TunnelIds : DialLocalOk(i)
    \/ \E i \in TunnelIds : DialLocalFail(i)

\* the copy loops of a tunnel, its return, and what its two peers do
TunnelCopyNext ==
    \/ \E i \in TunnelIds, dir \in Directions : CopyRead(i, dir)
    \/ \E i \in TunnelIds, dir \in Directions : CopyWrite(i, dir)
    \/ \E i \in TunnelIds, dir \in Directions : CopyCloseDst(i, dir)
    \/ \E i \in TunnelIds, dir \in Directions : CopyCloseSrc(i, dir)
    \/ \E i \in TunnelIds, dir \in Directions : CopyWgDone(i, dir)
    \/ \E i \in TunnelIds : TunnelReturn(i)
    \/ \E i \in TunnelIds, conn \in Conns, b \in PayloadBytes : PeerSend(i, conn, b)
    \/ \E i \in TunnelIds, conn \in Conns, how \in PeerEnds : PeerEnd(i, conn, how)

\* The host with its registration loop and the tunnels it launches; the peers of
\* the tunnels stay silent, so a tunnel that reaches its copy loops stays there.
Next == ControlNext \/ TunnelSetupNext

Spec == Init /\ [][Next]_vars

\* the registration loop always returns from a call that does not wait for the
\* relay: the dial (bounded by its timeout), the write, the dispatch of a line
\* it has read, and time.Sleep
FairSpec ==
    /\ FairInit /\ [][Next]_vars
    /\ WF_vars(BackoffElapsed)
    /\ WF_vars(RelayConnectOk \/ RelayConnectFail)
    /\ WF_vars(RegisterHostOk \/ RegisterHostFail)

\* One registered control connection on its own: the state after the first
\* connect, REGISTER_HOST and HOST_REGISTERED hostA, with the lines that follow
SessionInit ==
    /\ enableRelay = TRUE
    /\ headless \in BOOLEAN
    /\ relayServerAddr = <<"relay.example", ":", "34000">>
    /\ sessionPasswordHash \in PasswordHashes
    /\ mainPc = "running"
    /\ stdout = <<IdentityLine("hostA")>>
    /\ pc = "read"
    /\ controlConn = "open"
    /\ parts = <<"HOST_REGISTERED", "hostA">>
    /\ currentRelayHostID = "hostA"
    /\ ctrlOut = <<WriteCall(RegisterCmd(initialHostID), TRUE)>>
    /\ lastLog = "Effective Host ID (relay mode)"
    /\ sleepFor = 0
    /\ lineBudget = MaxSessionLines
    /\ vprRequests = <<>>
    /\ registrations = <<"hostA">>
    /\ tunnels = <<>>
    /\ peerBudget = 0
    /\ panicked = FALSE
    /\ LauncherIdle
    /\ ShutdownIdle
    /\ InputIdle
    /\ CallIdle

\* lines the relay sends to a registered host: the password requests, the
\* request of a tunnel, and a command the host does not know
SessionLines ==
    { line \in RelayLines :
        \/ line[1] = "VERIFY_PASSWORD_REQUEST" /\ Len(line) >= 3
        \/ line[1] = "CREATE_TUNNEL" /\ Len(line) >= 5 /\ line[5] = LongToken
        \/ line[1] = "PING" }

\* the read loop of one connection and the set-up of the tunnels it launches
SessionNext ==
    \/ \E line \in SessionLines : ReadLine(line)
    \/ \E err \in {"EOF", "other"} : ReadError(err)
    \/ \E sendOk \in BOOLEAN : VerifyPasswordRequest(sendOk)
    \/ CreateTunnel
    \/ UnknownCommand
    \/ TunnelSetupNext

SessionSpec == SessionInit /\ [][SessionNext]_vars

\* Two tunnels for different session tokens next to the control connection: the
\* state after HOST_REGISTERED hostA, CREATE_TUNNEL 40001 and CREATE_TUNNEL 40002
\* on the first control connection
PairInit ==
    /\ enableRelay = TRUE
    /\ headless = TRUE
    /\ relayServerAddr = <<"relay.example", ":", "34000">>
    /\ sessionPasswordHash = <<>>
    /\ mainPc = "running"
    /\ stdout = <<IdentityLine("hostA")>>
    /\ pc = "read"
    /\ controlConn = "open"
    /\ parts = <<"CREATE_TUNNEL", "40002", OtherToken>>
    /\ tunnels = << NewTunnel(localGrpcAddr, JoinHostPort("relay.example", "40001"),
                              LongToken, "hostA"),
                    NewTunnel(localGrpcAddr, JoinHostPort("relay.example", "40002"),
                              OtherToken, "hostA") >>
    /\ currentRelayHostID = "hostA"
    /\ ctrlOut = <<WriteCall(RegisterCmd(initialHostID), TRUE)>>
    /\ lastLog = "Host will connect to relay data endpoint"
    /\ sleepFor = 0
    /\ lineBudget = 0
    /\ vprRequests = <<>>
    /\ registrations = <<"hostA">>
    /\ peerBudget = MaxPeerEvents
    /\ panicked = FALSE
    /\ LauncherIdle
    /\ ShutdownIdle
    /\ InputIdle
    /\ CallIdle

\* the tunnels with peers that send nothing and end their side at some time,
\* and the control connection, which may be lost
PairNext ==
    \/ \E err \in {"EOF", "other"} : ReadError(err)
    \/ TunnelSetupNext
    \/ \E i \in TunnelIds, dir \in Directions : CopyRead(i, dir)
    \/ \E i \in TunnelIds, dir \in Directions : CopyCloseDst(i, dir)
    \/ \E i \in TunnelIds, dir \in Directions : CopyCloseSrc(i, dir)
    \/ \E i \in TunnelIds, dir \in Directions : CopyWgDone(i, dir)
    \/ \E i \in TunnelIds : TunnelReturn(i)
    \/ \E i \in TunnelIds, conn \in Conns, how \in PeerEnds : PeerEnd(i, conn, how)

PairSpec == PairInit /\ [][PairNext]_vars

\* One tunnel on its own, from the go statement of CREATE_TUNNEL on: the state
\* after HOST_REGISTERED hostA and CREATE_TUNNEL 40001 <token> on the first
\* control connection. A short token reaches the go statement only when headless.
TunnelInit ==
    /\ enableRelay = TRUE
    /\ headless \in BOOLEAN
    /\ relayServerAddr = <<"relay.example", ":", "34000">>
    /\ sessionPasswordHash = <<>>
    /\ mainPc = "running"
    /\ stdout = <<IdentityLine("hostA")>>
    /\ pc = "read"
    /\ controlConn = "open"
    /\ \E token \in {LongToken, ShortToken} :
         /\ Len(token) < TokenPrefixLen => headless
         /\ parts = <<"CREATE_TUNNEL", "40001", token>>
         /\ tunnels = <<NewTunnel(localGrpcAddr,
                                   JoinHostPort("relay.example", "40001"),
                                   token, "hostA")>>
    /\ currentRelayHostID = "hostA"
    /\ ctrlOut = <<WriteCall(RegisterCmd(initialHostID), TRUE)>>
    /\ lastLog = "Host will connect to relay data endpoint"
    /\ sleepFor = 0
    /\ lineBudget = 0
    /\ vprRequests = <<>>
    /\ registrations = <<"hostA">>
    /\ peerBudget = MaxPeerEvents
    /\ panicked = FALSE
    /\ LauncherIdle
    /\ ShutdownIdle
    /\ InputIdle
    /\ CallIdle

TunnelNext == TunnelSetupNext \/ TunnelCopyNext

TunnelSpec == TunnelInit /\ [][TunnelNext]_vars

\* a goroutine of the tunnel always takes its next step when it is not blocked
\* in a Read: a dial returns within its timeout, a Write or a Read on a closed
\* connection returns, and the deferred calls run
TunnelFairSpec ==
    /\ TunnelSpec
    /\ \A dir \in Directions :
         /\ WF_vars(CopyRead(1, dir))
         /\ WF_vars(CopyWrite(1, dir))
         /\ WF_vars(CopyCloseDst(1, dir))
         /\ WF_vars(CopyCloseSrc(1, dir))
         /\ WF_vars(CopyWgDone(1, dir))
    /\ WF_vars(TunnelReturn(1))

-----------------------------------------------------------------------------
(* Properties of the registration loop *)

\* the write calls of VERIFY_PASSWORD_RESPONSE on the current control connection
VerifyResponses == SelectSeq(ctrlOut, LAMBDA w : w.line[1] = "VERIFY_PASSWORD_RESPONSE")

\* the request being dispatched is a VERIFY_PASSWORD_REQUEST that carries a token
DispatchingVerify ==
    pc = "dispatch" /\ Len(parts) >= 2 /\ parts[1] = "VERIFY_PASSWORD_REQUEST"

\* C1: every VERIFY_PASSWORD_REQUEST with a token is answered by exactly one write
\* of VERIFY_PASSWORD_RESPONSE <same token> <true|false> on the same control
\* connection before the next line is read: whenever the loop is not dispatching
\* such a request, the responses written on the connection match, one for one
\* and in order, the requests read on it; while it dispatches one, only that
\* request is unanswered.
C1_ResponsePerRequest ==
    LET answered == IF DispatchingVerify THEN Len(vprRequests) - 1 ELSE Len(vprRequests)
    IN /\ Len(VerifyResponses) = answered
       /\ \A k \in 1..Len(VerifyResponses) :
            \E verdict \in {"true", "false"} :
                VerifyResponses[k].line =
                    <<"VERIFY_PASSWORD_RESPONSE", " ", vprRequests[k], " ", verdict, "\n">>

\* C1 witness: with a credential configured, a granted and a denied attempt have
\* both been answered on one connection and the loop is back at its read
C1_Witness ==
    /\ pc = "read"
    /\ sessionPasswordHash # <<>>
    /\ Len(vprRequests) = 2
    /\ Len(VerifyResponses) = 2
    /\ {VerifyResponses[1].line[5], VerifyResponses[2].line[5]} = {"true", "false"}

\* the registration loop is running and is neither in a connection attempt nor
\* on a control connection
Disconnected ==
    mainPc = "running" /\ enableRelay /\ pc \notin {"connect", "register", "read", "dispatch"}

\* C2: the registration loop has no terminal state while the process lives. A
\* failed dial leads to a sleep of 10 s, a failed REGISTER_HOST write and the end
\* of the read loop (EOF or read error) close the connection and lead to a sleep
\* of 5 s; the sleep is left only for a new connection attempt; and under
\* fairness every disconnection is followed by a new connection attempt.
C2_NoTerminalState ==
    /\ [][pc = "connect" /\ pc' # "connect" /\ controlConn' # "open"
            => pc' = "sleep" /\ sleepFor' = 10]_vars
    /\ [][pc = "register" /\ pc' # "register" /\ controlConn' # "open"
            => pc' = "sleep" /\ sleepFor' = 5 /\ controlConn' = "closed"]_vars
    /\ [][pc = "read" /\ pc' \notin {"read", "dispatch"}
            => pc' = "sleep" /\ sleepFor' = 5 /\ controlConn' = "closed"]_vars
    /\ [][pc = "sleep" /\ pc' # "sleep" => pc' = "connect" /\ sleepFor' = 0]_vars
    /\ (Disconnected /\ ~panicked) ~> (pc = "connect" \/ panicked)

\* C2 witness: a registered control connection was lost and the loop is at a
\* new connection attempt
C2_Witness ==
    /\ pc = "connect"
    /\ controlConn = "closed"
    /\ registrations # <<>>
    /\ ~panicked

\* the HOST_REGISTERED lines processed so far: all that were read, but the one
\* being dispatched
RegistrationsDone ==
    IF pc = "dispatch" /\ Len(parts) >= 2 /\ parts[1] = "HOST_REGISTERED"
    THEN SubSeq(registrations, 1, Len(registrations) - 1)
    ELSE registrations

\* C3: in relay mode standard output holds exactly one identity line
\* EFFECTIVE_HOST_ID:<id>\n per processed HOST_REGISTERED, in order, none before
\* the first, and the live identity is the id of the last one; in direct mode
\* the identity line of the local identity is written by the start-up and the
\* registration loop is never started.
C3_IdentityLines ==
    /\ enableRelay =>
        /\ Len(stdout) = Len(RegistrationsDone)
        /\ \A k \in 1..Len(stdout) :
              stdout[k] = <<"EFFECTIVE_HOST_ID:", RegistrationsDone[k], "\n">>
        /\ currentRelayHostID =
              IF RegistrationsDone = <<>> THEN ""
              ELSE RegistrationsDone[Len(RegistrationsDone)]
    /\ ~enableRelay =>
        /\ mainPc = "start" => stdout = <<>>
        /\ mainPc = "running" =>
              /\ stdout # <<>>
              /\ \A k \in 1..Len(stdout) :
                    stdout[k] = <<"EFFECTIVE_HOST_ID:", initialHostID, "\n">>
        /\ pc = "idle" /\ controlConn = "nil" /\ ctrlOut = <<>> /\ registrations = <<>>

\* C3 witness: the relay registered the host twice under the same identity and
\* both registrations were processed
C3_Witness ==
    /\ enableRelay
    /\ pc = "read"
    /\ registrations = <<"hostA", "hostA">>
    /\ Len(stdout) = 2

\* C4: a CREATE_TUNNEL dispatched while no identity is assigned launches no
\* tunnel and opens no data connection, is logged, writes nothing, and leaves
\* the loop on its open control connection at the read of the next line.
C4_TunnelBeforeRegistration ==
    [][ pc = "dispatch" /\ parts[1] = "CREATE_TUNNEL" /\ currentRelayHostID = ""
          => /\ tunnels' = tunnels
             /\ tunnels = <<>>
             /\ ~panicked'
             /\ ctrlOut' = ctrlOut
             /\ controlConn = "open" /\ controlConn' = "open"
             /\ pc' = "read"
             /\ lastLog' = IF Len(parts) >= 3
                           THEN "Received CREATE_TUNNEL before host ID was registered"
                           ELSE "Invalid CREATE_TUNNEL command" ]_vars

\* C4 witness: a well-formed CREATE_TUNNEL has just been ignored before any
\* registration and the loop is back at its read on the open connection
C4_Witness ==
    /\ lastLog = "Received CREATE_TUNNEL before host ID was registered"
    /\ Len(parts) >= 3
    /\ currentRelayHostID = ""
    /\ tunnels = <<>>
    /\ controlConn = "open"
    /\ pc = "read"

\* the dispatch of the line that has been read
Dispatch ==
    \/ HostRegistered
    \/ \E sendOk \in BOOLEAN : VerifyPasswordRequest(sendOk)
    \/ CreateTunnel
    \/ UnknownCommand

\* a CREATE_TUNNEL line that passes every check of its case
ValidCreateTunnel ==
    /\ pc = "dispatch"
    /\ parts[1] = "CREATE_TUNNEL"
    /\ Len(parts) >= 3
    /\ currentRelayHostID # ""
    /\ SplitHostPortOk(relayServerAddr)

\* C5: CREATE_TUNNEL is handled asynchronously. The handling of a valid
\* CREATE_TUNNEL launches one tunnel and leaves the loop at the read of the next
\* line with the tunnel not yet started; a tunnel is launched by no other step;
\* and whatever the launched tunnels are doing, a line that has been read can be
\* dispatched and the next line can be read.
C5_TunnelLaunchAsync ==
    /\ [][ ValidCreateTunnel /\ (pc' # pc \/ tunnels' # tunnels \/ panicked' # panicked)
             => /\ pc' = "read"
                /\ controlConn' = "open"
                /\ ~panicked'
                /\ Len(tunnels') = Len(tunnels) + 1
                /\ tunnels'[Len(tunnels')].pc = "start" ]_vars
    /\ [][ Len(tunnels') > Len(tunnels) => ValidCreateTunnel ]_vars
    /\ [](pc = "dispatch" => ENABLED Dispatch)
    /\ [](pc = "read" /\ lineBudget > 0
             => ENABLED (\E line \in RelayLines : ReadLine(line)))

\* a tunnel whose two copy loops are running
Bridging(i) == tunnels[i].pc = "wait"

\* C9: no two tunnels with the same session token are bridging at the same time.
C9_OneBridgePerToken ==
    \A i, j \in TunnelIds :
        i # j /\ tunnels[i].sessionToken = tunnels[j].sessionToken
            => ~(Bridging(i) /\ Bridging(j))

\* C10: no line of the relay makes a goroutine of the host panic.
C10_NoPanic == ~panicked

-----------------------------------------------------------------------------
(* Properties of one tunnel *)

\* a copy loop has left io.Copy
CopyFinished(t, dir) == t[dir].pc \in {"closeDst", "closeSrc", "wgDone", "done"}

BothClosed(t) == t.hostProxyConn = "closed" /\ t.localServiceConn = "closed"

\* C6: a copy loop that has finished, for whatever reason, has closed both
\* connections by the time it signals the wait group; once a copy loop has
\* finished, or a peer has ended its side of a bridged connection, both copy
\* loops eventually are done with both connections closed.
C6_BothLoopsEnd ==
    /\ [](\A i \in TunnelIds : \A dir \in Directions :
            tunnels[i][dir].pc \in {"wgDone", "done"} => BothClosed(tunnels[i]))
    /\ \A dir \in Directions :
         CopyFinished(tunnels[1], dir)
            ~> (tunnels[1].r2l.pc = "done" /\ tunnels[1].l2r.pc = "done"
                /\ BothClosed(tunnels[1]))
    /\ (tunnels[1].pc = "wait"
          /\ (tunnels[1].relayPeer # "open" \/ tunnels[1].localPeer # "open"))
            ~> (tunnels[1].r2l.pc = "done" /\ tunnels[1].l2r.pc = "done"
                /\ BothClosed(tunnels[1]))

\* C6 witness: one copy loop ended with an error that is not a network close,
\* the other with one that is, and both are done with both connections closed
C6_Witness ==
    /\ tunnels[1].r2l.pc = "done" /\ tunnels[1].l2r.pc = "done"
    /\ tunnels[1].r2l.log = "ERROR"
    /\ tunnels[1].l2r.err # <<>> /\ tunnels[1].l2r.log = "INFO"
    /\ BothClosed(tunnels[1])

\* C7: a tunnel that started its copy loops has returned only if both copy
\* loops are done.
C7_ReturnAfterBothLoops ==
    \A i \in TunnelIds :
        tunnels[i].pc = "done" /\ (tunnels[i].r2l.pc # "idle" \/ tunnels[i].l2r.pc # "idle")
            => tunnels[i].r2l.pc = "done" /\ tunnels[i].l2r.pc = "done"

\* C7 witness: a tunnel has returned after both copy loops moved payload and ended
C7_Witness ==
    /\ tunnels[1].pc = "done"
    /\ tunnels[1].r2l.pc = "done" /\ tunnels[1].l2r.pc = "done"
    /\ tunnels[1].toLocal # <<>>

\* C8: the identification line SESSION_TOKEN <token> HOST_PROXY\n is written
\* once on a tunnel that has its relay data connection, never twice, before
\* either copy loop starts and before the local service is
\* dialled, so everything the relay receives starts with it and holds it once;
\* when its write fails the tunnel has returned with the relay connection
\* closed, no local connection, no copy loop and no second attempt.
C8_IdentificationFirst ==
    \A i \in TunnelIds :
        LET t == tunnels[i]
            ident == <<"SESSION_TOKEN", " ", t.sessionToken, " ", "HOST_PROXY", "\n">>
        IN /\ t.identWrites <= 1
           /\ t.hostProxyConn # "nil" /\ t.pc \notin {"start", "dialRelay", "ident"}
                 => t.identWrites = 1
           /\ \/ t.toRelay = <<>>
              \/ /\ Len(t.toRelay) >= Len(ident)
                 /\ SubSeq(t.toRelay, 1, Len(ident)) = ident
                 /\ \A k \in (Len(ident) + 1)..Len(t.toRelay) : t.toRelay[k] \in PayloadBytes
           /\ (t.localServiceConn # "nil" \/ t.r2l.pc # "idle" \/ t.l2r.pc # "idle")
                 => t.identWrites = 1 /\ t.toRelay # <<>>
           /\ t.identWrites = 1 /\ t.toRelay = <<>>
                 => /\ t.pc = "done"
                    /\ t.hostProxyConn = "closed"
                    /\ t.localServiceConn = "nil"
                    /\ t.r2l.pc = "idle" /\ t.l2r.pc = "idle"

\* C8 witness: payload of the local service has reached the relay behind the
\* identification line
C8_Witness ==
    /\ tunnels[1].identWrites = 1
    /\ Len(tunnels[1].toRelay) > Len(IdentCmd(tunnels[1].sessionToken))

-----------------------------------------------------------------------------
(* Properties of the dispatch of control lines *)

\* the line being dispatched is malformed or has an unknown command
MalformedLine ==
    /\ pc = "dispatch"
    /\ \/ parts[1] = "CREATE_TUNNEL" /\ Len(parts) < 3
       \/ parts[1] = "VERIFY_PASSWORD_REQUEST" /\ Len(parts) < 2
       \/ parts[1] = "HOST_REGISTERED" /\ Len(parts) < 2
       \/ parts[1] \notin {"HOST_REGISTERED", "VERIFY_PASSWORD_REQUEST", "CREATE_TUNNEL"}

\* C11: the step of the control loop that handles a malformed line, an unknown
\* command or a line without a field leaves the identity, everything written on
\* the control connection, standard output and the tunnels as they are, keeps
\* the connection open and takes the loop to the read of the next line.
C11_MalformedIgnored ==
    [][ ( (MalformedLine /\ pc' # pc)
          \/ (pc = "read" /\ lineBudget' # lineBudget /\ parts' = <<>>) )
          => /\ currentRelayHostID' = currentRelayHostID
             /\ ctrlOut' = ctrlOut
             /\ stdout' = stdout
             /\ tunnels' = tunnels
             /\ controlConn = "open" /\ controlConn' = "open"
             /\ ~panicked'
             /\ pc' = "read" ]_vars

\* C11 witness: an unknown command has just been ignored on a registered
\* connection that has carried a response, with a tunnel launched
C11_Witness ==
    /\ lastLog \in {"Unknown command from relay server", "Invalid CREATE_TUNNEL command",
                    "Invalid VERIFY_PASSWORD_REQUEST (missing token)",
                    "Invalid HOST_REGISTERED response"}
    /\ pc = "read"
    /\ controlConn = "open"
    /\ currentRelayHostID = "hostA"
    /\ Len(tunnels) = 1

\* the token carried by a VERIFY_PASSWORD_RESPONSE line
ResponseToken(w) == w.line[3]

\* C12: on one control connection the writes only append to what was written,
\* and the k-th VERIFY_PASSWORD_RESPONSE written carries the token of the k-th
\* VERIFY_PASSWORD_REQUEST received, whatever CREATE_TUNNEL commands came in
\* between and whatever the tunnels are doing.
C12_ResponsesInReceiptOrder ==
    /\ [](/\ Len(VerifyResponses) <= Len(vprRequests)
          /\ \A k \in 1..Len(VerifyResponses) :
                ResponseToken(VerifyResponses[k]) = vprRequests[k])
    /\ [][ ctrlOut' # ctrlOut
             => /\ Len(ctrlOut') = Len(ctrlOut) + 1
                /\ SubSeq(ctrlOut', 1, Len(ctrlOut)) = ctrlOut ]_vars

\* C12 witness: two requests with different tokens have been answered on a
\* connection that launched a tunnel, and the tunnel is in flight
C12_Witness ==
    /\ Len(VerifyResponses) = 2
    /\ ResponseToken(VerifyResponses[1]) # ResponseToken(VerifyResponses[2])
    /\ Len(tunnels) = 1
    /\ tunnels[1].pc \in {"dialRelay", "ident", "dialLocal", "wait"}

\* the password attempt of the request being dispatched: the fields after the
\* token joined with single blanks, empty when there is none
Attempt == IF Len(parts) >= 3 THEN Join(SubSeq(parts, 3, Len(parts))) ELSE <<>>

\* the verdict the host owes: anything when no hash is configured, otherwise
\* only the plaintext the configured hash was made from
OwedVerdict ==
    \/ sessionPasswordHash = <<>>
    \/ sessionPasswordHash = BcryptHash(Secret) /\ Attempt = Secret

\* C13: the step that handles a VERIFY_PASSWORD_REQUEST with a token writes the
\* response with verdict true when no hash is configured, whatever the attempt,
\* and otherwise true exactly when the attempt is the plaintext of the
\* configured hash; a denial is only written: the loop reads on with the
\* connection open.
C13_Verdict ==
    [][ DispatchingVerify /\ pc' # pc
          => /\ Len(ctrlOut') = Len(ctrlOut) + 1
             /\ ctrlOut'[Len(ctrlOut')].line =
                  <<"VERIFY_PASSWORD_RESPONSE", " ", parts[2], " ",
                    IF OwedVerdict THEN "true" ELSE "false", "\n">>
             /\ pc' = "read"
             /\ controlConn' = "open"
             /\ ~panicked' ]_vars

\* the verdict carried by a VERIFY_PASSWORD_RESPONSE line
ResponseVerdict(w) == w.line[5]

\* C13 witness: with a hash configured the matching attempt has been granted,
\* a wrong attempt has been denied, and the loop is reading on
C13_Witness ==
    /\ sessionPasswordHash = BcryptHash(Secret)
    /\ Len(VerifyResponses) = 2
    /\ ResponseVerdict(VerifyResponses[1]) = "true"
    /\ ResponseVerdict(VerifyResponses[2]) = "false"
    /\ pc = "read" /\ controlConn = "open"

\* C13 witness for the host without a password: an empty attempt has been granted
C13_WitnessNoHash ==
    /\ sessionPasswordHash = <<>>
    /\ Len(VerifyResponses) = 1
    /\ Len(parts) = 2
    /\ ResponseVerdict(VerifyResponses[1]) = "true"
    /\ pc = "read"

-----------------------------------------------------------------------------
(* Properties of the payload of a tunnel *)

IsPrefix(a, b) == Len(a) <= Len(b) /\ SubSeq(b, 1, Len(a)) = a

\* what the relay has received behind the identification line
PayloadToRelay(t) ==
    IF t.toRelay = <<>> THEN <<>>
    ELSE SubSeq(t.toRelay, Len(IdentCmd(t.sessionToken)) + 1, Len(t.toRelay))

\* C14: in each direction the bytes delivered are, in order and unchanged, the
\* first bytes the other side sent: the local service receives a prefix of what
\* the relay sent on the data connection, the relay receives behind the
\* identification line a prefix of what the local service sent; and while a copy
\* loop is copying, what it delivered, what it holds in its buffer and what is
\* still to be read make up exactly what was sent.
C14_BytesInOrder ==
    \A i \in TunnelIds :
        LET t == tunnels[i] IN
        /\ IsPrefix(t.toLocal, t.sentByRelay)
        /\ IsPrefix(PayloadToRelay(t), t.sentByLocal)
        /\ t.r2l.pc \in {"read", "write"}
              => t.toLocal \o t.r2l.buf \o t.fromRelay = t.sentByRelay
        /\ t.l2r.pc \in {"read", "write"}
              => PayloadToRelay(t) \o t.l2r.buf \o t.fromLocal = t.sentByLocal

\* C14 witness: two different bytes of the relay have reached the local service
\* and a byte of the local service has reached the relay, both connections open
C14_Witness ==
    /\ tunnels[1].toLocal = <<"p", "q">>
    /\ Len(PayloadToRelay(tunnels[1])) = 1
    /\ tunnels[1].hostProxyConn = "open" /\ tunnels[1].localServiceConn = "open"

-----------------------------------------------------------------------------
(* Properties of tunnels side by side *)

\* a tunnel in its copy loops whose peers are both there and whose copy loops
\* have met no error
Undisturbed(t) ==
    /\ t.pc = "wait"
    /\ t.relayPeer = "open" /\ t.localPeer = "open"
    /\ t.r2l.pc = "read" /\ t.l2r.pc = "read"

\* C15: a step that changes one tunnel changes no other tunnel and not the
\* control connection, and a step that changes the control connection changes
\* no tunnel; so a tunnel in its copy loops whose own peers are both there has
\* both connections open, whatever became of the other tunnels and of the
\* control connection.
C15_TunnelsIndependent ==
    /\ [][ \A i, j \in DOMAIN tunnels :
             tunnels'[i] # tunnels[i] /\ j # i
                => tunnels'[j] = tunnels[j] /\ controlConn' = controlConn ]_vars
    /\ [][ controlConn' # controlConn => tunnels' = tunnels ]_vars
    /\ [](\A j \in TunnelIds :
             Undisturbed(tunnels[j])
                => tunnels[j].hostProxyConn = "open" /\ tunnels[j].localServiceConn = "open")

\* C15 witness: one tunnel has gone through its copy loops and returned with
\* its connections closed, the control connection is lost, and the tunnel of
\* the other token is bridging
C15_Witness ==
    /\ tunnels[1].pc = "done" /\ tunnels[1].r2l.pc = "done"
    /\ tunnels[1].hostProxyConn = "closed" /\ tunnels[1].localServiceConn = "closed"
    /\ controlConn = "closed"
    /\ tunnels[2].sessionToken # tunnels[1].sessionToken
    /\ Undisturbed(tunnels[2])
    /\ tunnels[2].hostProxyConn = "open" /\ tunnels[2].localServiceConn = "open"

-----------------------------------------------------------------------------
(* connectViaRelay: the session attempt of the launcher *)

\* the characters of a text given as lexemes
RECURSIVE Text(_)
Text(lexemes) == IF lexemes = <<>> THEN "" ELSE Head(lexemes) \o Text(Tail(lexemes))

\* what connectViaRelay is called with
TargetHostIDs == {"hostA", "hostB", "my host"}

PasswordAttempts == {"", "sesame", "open sesame"}

\* lines the relay may answer with, without the final "\n"
RelayAnswers ==
    { <<"SESSION_READY", SP, "40001", SP, LongToken>>,
      <<"SESSION_READY", SP, "40002", SP, OtherToken, SP>>,
      <<"SESSION_READY", SP, "40001">>,
      <<"ERROR_HOST_NOT_FOUND">>,
      <<"ERROR_HOST_NOT_FOUND", SP, "hostB">>,
      <<"ERROR_AUTHENTICATION_FAILED">>,
      <<"BUSY">>,
      <<"authentication", SP, "failed", SP, "for", SP, "HostID", SP, "'hostA'">>,
      <<SP>> }

\* errors of the dial, of the write and of the read, as err.Error()
DialErrors == {"connection refused", "i/o timeout"}

WriteErrors == {"broken pipe"}

ReadErrors == {"EOF", "i/o timeout", "connection reset by peer"}

\* the four results of connectViaRelay; a nil error is <<>>, an error is <<its message>>
Connected(relayDataAddrForClient, sessionToken) ==
    [ connected |-> TRUE, relayDataAddrForClient |-> relayDataAddrForClient,
      sessionToken |-> sessionToken, err |-> <<>> ]

Failed(message) ==
    [ connected |-> FALSE, relayDataAddrForClient |-> "", sessionToken |-> "",
      err |-> <<message>> ]

\* fmt.Errorf("relay server reported HostID '%s' not found", targetHostID)
HostNotFoundError(id) == "relay server reported HostID '" \o id \o "' not found"

\* fmt.Errorf("authentication failed for HostID '%s'", targetHostID)
AuthenticationFailedError(id) == "authentication failed for HostID '" \o id \o "'"

\* cmdStr, as one write
InitiateClientSession(id, password) ==
    IF password = "" THEN "INITIATE_CLIENT_SESSION " \o id \o "\n"
    ELSE "INITIATE_CLIENT_SESSION " \o id \o " " \o password \o "\n"

\* ParseRelayResponse with a slip: SESSION_READY is accepted with a port and no
\* token
ParseRelayResponseShortReady(id, addr, trimmed) ==
    LET fields == Fields(trimmed) IN
    IF Len(fields) = 0
    THEN Failed("empty or invalid response from relay: " \o Text(trimmed))
    ELSE IF fields[1] = "SESSION_READY"
    THEN IF Len(fields) < 2
         THEN Failed("invalid SESSION_READY response from relay: " \o Text(trimmed))
         ELSE IF ~SplitHostPortOk(addr)
         THEN Failed("could not parse host from relayControlAddr '" \o Text(addr)
                     \o "': missing port in address")
         ELSE Connected(Text(JoinHostPort(SplitHostPort(addr)[1], fields[2])),
                        IF Len(fields) >= 3 THEN fields[3] ELSE "")
    ELSE IF fields[1] = "ERROR_HOST_NOT_FOUND"
    THEN Failed(HostNotFoundError(id))
    ELSE IF fields[1] = "ERROR_AUTHENTICATION_FAILED"
    THEN Failed(AuthenticationFailedError(id))
    ELSE Failed("unexpected response from relay: " \o Text(trimmed))

\* ParseRelayResponse with a slip: every refusal of the relay gives the same error
ParseRelayResponseOneRefusal(id, addr, trimmed) ==
    LET fields == Fields(trimmed) IN
    IF Len(fields) = 0
    THEN Failed("empty or invalid response from relay: " \o Text(trimmed))
    ELSE IF fields[1] = "SESSION_READY"
    THEN IF Len(fields) < 3
         THEN Failed("invalid SESSION_READY response from relay: " \o Text(trimmed))
         ELSE IF ~SplitHostPortOk(addr)
         THEN Failed("could not parse host from relayControlAddr '" \o Text(addr)
                     \o "': missing port in address")
         ELSE Connected(Text(JoinHostPort(SplitHostPort(addr)[1], fields[2])), fields[3])
    ELSE Failed("relay refused the session for HostID '" \o id \o "'")

\* the switch on the first field of the trimmed response
ParseRelayResponse(id, addr, trimmed) ==
    LET fields == Fields(trimmed) IN
    IF Len(fields) = 0
    THEN Failed("empty or invalid response from relay: " \o Text(trimmed))
    ELSE IF fields[1] = "SESSION_READY"
    THEN IF Len(fields) < 3
         THEN Failed("invalid SESSION_READY response from relay: " \o Text(trimmed))
         ELSE IF ~SplitHostPortOk(addr)
         THEN Failed("could not parse host from relayControlAddr '" \o Text(addr)
                     \o "': missing port in address")
         ELSE Connected(Text(JoinHostPort(SplitHostPort(addr)[1], fields[2])), fields[3])
    ELSE IF fields[1] = "ERROR_HOST_NOT_FOUND"
    THEN Failed(HostNotFoundError(id))
    ELSE IF fields[1] = "ERROR_AUTHENTICATION_FAILED"
    THEN Failed(AuthenticationFailedError(id))
    ELSE Failed("unexpected response from relay: " \o Text(trimmed))

\* what the relay's answer means for the attempt
AnswerOutcome(addr, answer) ==
    LET fields == Fields(answer) IN
    IF Len(fields) = 0 THEN "error"
    ELSE IF fields[1] = "SESSION_READY"
    THEN IF Len(fields) >= 3 /\ SplitHostPortOk(addr) THEN "success" ELSE "error"
    ELSE IF fields[1] = "ERROR_HOST_NOT_FOUND" THEN "host_not_found"
    ELSE IF fields[1] = "ERROR_AUTHENTICATION_FAILED" THEN "authentication_failed"
    ELSE "error"

\* no host process on the machine of the launcher
HostAbsent ==
    /\ enableRelay = FALSE
    /\ headless = TRUE
    /\ relayServerAddr = <<>>
    /\ sessionPasswordHash = <<>>
    /\ mainPc = "start"
    /\ stdout = <<>>
    /\ pc = "idle"
    /\ controlConn = "nil"
    /\ parts = <<>>
    /\ currentRelayHostID = ""
    /\ ctrlOut = <<>>
    /\ lastLog = ""
    /\ sleepFor = 0
    /\ lineBudget = 0
    /\ vprRequests = <<>>
    /\ registrations = <<>>
    /\ tunnels = <<>>
    /\ peerBudget = 0
    /\ panicked = FALSE

\* a session attempt is about to be made
AttemptInit ==
    /\ HostAbsent
    /\ ShutdownIdle
    /\ InputIdle
    /\ CallIdle
    /\ targetHostID \in TargetHostIDs
    /\ plainTextPassword \in PasswordAttempts
    /\ relayControlAddr \in RelayAddrs
    /\ cvrPc = "dial"
    /\ clientConn = "nil"
    /\ clientOut = <<>>
    /\ response = <<>>
    /\ result = <<>>
    /\ outcome = ""
    /\ launches = <<>>

\* net.DialTimeout succeeds; defer conn.Close()
ClientDialOk ==
    /\ cvrPc = "dial"
    /\ SplitHostPortOk(relayControlAddr)
    /\ clientConn' = "open"
    /\ cvrPc' = "send"
    /\ UNCHANGED <<inputVars, callVars, launches, shutdownVars, hostVars, targetHostID, plainTextPassword, relayControlAddr, clientOut,
                   response, result, outcome>>

\* net.DialTimeout fails
ClientDialFail(cause) ==
    /\ cvrPc = "dial"
    /\ result' = Failed("failed to connect to relay control server "
                        \o Text(relayControlAddr) \o ": " \o cause)
    /\ outcome' = "error"
    /\ cvrPc' = "returned"
    /\ UNCHANGED <<inputVars, callVars, launches, shutdownVars, hostVars, targetHostID, plainTextPassword, relayControlAddr, clientConn,
                   clientOut, response>>

\* fmt.Fprint(conn, cmdStr) succeeds
ClientSendOk ==
    /\ cvrPc = "send"
    /\ clientOut' = Append(clientOut,
                           WriteCall(InitiateClientSession(targetHostID, plainTextPassword), TRUE))
    /\ cvrPc' = "read"
    /\ UNCHANGED <<inputVars, callVars, launches, shutdownVars, hostVars, targetHostID, plainTextPassword, relayControlAddr, clientConn,
                   response, result, outcome>>

\* fmt.Fprint(conn, cmdStr) fails: return, the deferred Close runs
ClientSendFail(cause) ==
    /\ cvrPc = "send"
    /\ clientOut' = Append(clientOut,
                           WriteCall(InitiateClientSession(targetHostID, plainTextPassword), FALSE))
    /\ result' = Failed("failed to send INITIATE_CLIENT_SESSION to relay: " \o cause)
    /\ outcome' = "error"
    /\ clientConn' = Close(clientConn)
    /\ cvrPc' = "returned"
    /\ UNCHANGED <<inputVars, callVars, launches, shutdownVars, hostVars, targetHostID, plainTextPassword, relayControlAddr, response>>

\* reader.ReadString fails or the read deadline passes: return, the deferred Close runs
ClientReadFail(cause) ==
    /\ cvrPc = "read"
    /\ result' = Failed("failed to read response from relay server: " \o cause)
    /\ outcome' = "error"
    /\ clientConn' = Close(clientConn)
    /\ cvrPc' = "returned"
    /\ UNCHANGED <<inputVars, callVars, launches, shutdownVars, hostVars, targetHostID, plainTextPassword, relayControlAddr, clientOut, response>>

\* ClientReadAnswer with a slip: the connection is closed on the error paths
\* only, a session that is ready keeps it
ClientReadAnswerKeepsConn(answer) ==
    /\ cvrPc = "read"
    /\ response' = TrimSpace(answer)
    /\ result' = ParseRelayResponse(targetHostID, relayControlAddr, TrimSpace(answer))
    /\ outcome' = AnswerOutcome(relayControlAddr, answer)
    /\ clientConn' = IF result'.connected THEN clientConn ELSE Close(clientConn)
    /\ cvrPc' = "returned"
    /\ UNCHANGED <<inputVars, callVars, launches, shutdownVars, hostVars, targetHostID, plainTextPassword, relayControlAddr, clientOut>>

\* reader.ReadString returns a line: trim it, switch on its first field and
\* return; the deferred Close runs
ClientReadAnswer(answer) ==
    /\ cvrPc = "read"
    /\ response' = TrimSpace(answer)
    /\ result' = ParseRelayResponse(targetHostID, relayControlAddr, TrimSpace(answer))
    /\ outcome' = AnswerOutcome(relayControlAddr, answer)
    /\ clientConn' = Close(clientConn)
    /\ cvrPc' = "returned"
    /\ UNCHANGED <<inputVars, callVars, launches, shutdownVars, hostVars, targetHostID, plainTextPassword, relayControlAddr, clientOut>>

\* launchClientApplication(clientPath, address, isRelay, sessionToken, ...)
LaunchCall(address, isRelay, sessionToken) ==
    [ address |-> address, isRelay |-> isRelay, sessionToken |-> sessionToken ]

\* the launcher with the results of connectViaRelay: the client is started in
\* relay mode when relayConnected, otherwise the error dialog is shown
AfterAttempt ==
    /\ cvrPc = "returned"
    /\ IF result.connected
       THEN /\ launches' = Append(launches,
                               LaunchCall(result.relayDataAddrForClient, TRUE,
                                          result.sessionToken))
            /\ cvrPc' = "launched"
       ELSE /\ launches' = launches
            /\ cvrPc' = "errorShown"
    /\ UNCHANGED <<inputVars, callVars, shutdownVars, hostVars, targetHostID, plainTextPassword,
                   relayControlAddr, clientConn, clientOut, response, result, outcome>>

AttemptNext ==
    \/ ClientDialOk
    \/ \E cause \in DialErrors : ClientDialFail(cause)
    \/ ClientSendOk
    \/ \E cause \in WriteErrors : ClientSendFail(cause)
    \/ \E cause \in ReadErrors : ClientReadFail(cause)
    \/ \E answer \in RelayAnswers : ClientReadAnswer(answer)
    \/ AfterAttempt

AttemptSpec == AttemptInit /\ [][AttemptNext]_vars

\* C16: the value connectViaRelay returns tells the four outcomes apart, for
\* every target, password, relay address and answer: it is connected, with a
\* data address, a token and no error, exactly on success; its error is the
\* host-not-found error of a target exactly when the relay answered
\* ERROR_HOST_NOT_FOUND, the authentication error of a target exactly when the
\* relay answered ERROR_AUTHENTICATION_FAILED, and another error on a transport
\* or protocol error.
C16_OutcomesDistinct ==
    cvrPc = "returned" =>
        /\ outcome \in {"success", "host_not_found", "authentication_failed", "error"}
        /\ result.connected <=> outcome = "success"
        /\ result.connected
              => /\ result.err = <<>>
                 /\ result.relayDataAddrForClient # ""
                 /\ result.sessionToken # ""
        /\ ~result.connected
              => /\ result.err # <<>>
                 /\ result.relayDataAddrForClient = ""
                 /\ result.sessionToken = ""
        /\ outcome = "host_not_found"
              <=> result.err \in {<<HostNotFoundError(id)>> : id \in TargetHostIDs}
        /\ outcome = "authentication_failed"
              <=> result.err \in {<<AuthenticationFailedError(id)>> : id \in TargetHostIDs}

\* C16 witness: the relay denied the password, and the attempt returned the
\* authentication error of its target
C16_Witness ==
    /\ cvrPc = "returned"
    /\ outcome = "authentication_failed"
    /\ plainTextPassword = "sesame"
    /\ result.err = <<"authentication failed for HostID 'hostA'">>

\* C17: conn is open from the successful dial to the return and closed by every
\* return after it, whatever was sent, read or answered; what is returned is a
\* flag, an address, a token and an error, never the connection.
C17_ControlConnClosed ==
    /\ cvrPc \in {"send", "read"} => clientConn = "open"
    /\ cvrPc = "returned" =>
          /\ clientConn \in {"nil", "closed"}
          /\ clientConn = "nil" <=> clientOut = <<>>
          /\ DOMAIN result = {"connected", "relayDataAddrForClient", "sessionToken", "err"}

\* C17 witness: SESSION_READY has been answered, the attempt returned the data
\* address and the token, and conn is closed
C17_Witness ==
    /\ cvrPc = "returned"
    /\ result.connected
    /\ result.relayDataAddrForClient = "relay.example:40001"
    /\ result.sessionToken = LongToken
    /\ clientConn = "closed"

-----------------------------------------------------------------------------
(* tryGracefulShutdown and the places of main that call it *)

\* const shutdownTimeout = 5 * time.Second, in seconds
shutdownTimeout == 5

\* an invocation of tryGracefulShutdown(s, timeout) at its first statement
NewShutdown(site, timeout) ==
    [ site     |-> site,        \* the caller: "button", "onClosed" or "signal"
      timeout  |-> timeout,
      pc       |-> "entry",
      gs       |-> "none",      \* the goroutine that calls GracefulStop
      stopped  |-> "open",      \* the channel stopped
      branch   |-> "none",      \* the case the select took
      ret      |-> "none",      \* the value returned
      atEntry  |-> grpcServer,  \* history: the service when the invocation began
      graceful |-> 0,           \* history: GracefulStop calls of this invocation
      forced   |-> 0 ]          \* history: Stop calls of this invocation

Shutdowns == DOMAIN shutdowns

SetShutdown(k, sd) ==
    /\ shutdowns' = [shutdowns EXCEPT ![k] = sd]
    /\ UNCHANGED <<inputVars, callVars, hostVars, launcherVars>>

\* the callbacks of the GUI run one at a time
NoCallbackRunning == \A k \in Shutdowns : shutdowns[k].pc = "returned"

\* the button "Shutdown Server" is clicked
ShutdownButton ==
    /\ ~headless
    /\ uiPc = "running"
    /\ NoCallbackRunning
    /\ shutdowns' = Append(shutdowns, NewShutdown("button", shutdownTimeout))
    /\ uiPc' = "button"
    /\ UNCHANGED <<inputVars, callVars, hostVars, launcherVars, grpcServer, gracefulStops, forceStops>>

\* the window closes, by the user or after fyneApp.Quit(): the OnClosed callback
WindowClosed ==
    /\ ~headless
    /\ uiPc \in {"running", "quit"}
    /\ NoCallbackRunning
    /\ shutdowns' = Append(shutdowns, NewShutdown("onClosed", shutdownTimeout))
    /\ uiPc' = "onClosed"
    /\ UNCHANGED <<inputVars, callVars, hostVars, launcherVars, grpcServer, gracefulStops, forceStops>>

\* headless: a signal arrives on sigChan
SignalReceived ==
    /\ headless
    /\ uiPc = "running"
    /\ shutdowns' = Append(shutdowns, NewShutdown("signal", shutdownTimeout))
    /\ uiPc' = "signal"
    /\ UNCHANGED <<inputVars, callVars, hostVars, launcherVars, grpcServer, gracefulStops, forceStops>>

\* if s.grpcServer == nil { return false }; make(chan struct{}); go func
ShutdownEntry(k) ==
    /\ uiPc # "exited"
    /\ k \in Shutdowns
    /\ shutdowns[k].pc = "entry"
    /\ IF grpcServer = "nil"
       THEN SetShutdown(k, [shutdowns[k] EXCEPT !.pc = "exitFalse"])
       ELSE SetShutdown(k, [shutdowns[k] EXCEPT !.gs = "spawned", !.pc = "select"])
    /\ UNCHANGED <<grpcServer, gracefulStops, forceStops, uiPc>>

\* the goroutine calls s.grpcServer.GracefulStop(): on a stopped server it
\* returns at once, otherwise the server stops accepting and the call waits
GracefulStopCall(k) ==
    /\ uiPc # "exited"
    /\ k \in Shutdowns
    /\ shutdowns[k].gs = "spawned"
    /\ gracefulStops' = gracefulStops + 1
    /\ grpcServer' = IF grpcServer = "serving" THEN "draining" ELSE grpcServer
    /\ SetShutdown(k, [shutdowns[k] EXCEPT
                          !.gs = IF grpcServer = "stopped" THEN "returned" ELSE "waiting",
                          !.graceful = @ + 1])
    /\ UNCHANGED <<forceStops, uiPc>>

\* the last connection of the draining server ends
DrainComplete ==
    /\ uiPc # "exited"
    /\ grpcServer = "draining"
    /\ grpcServer' = "stopped"
    /\ UNCHANGED <<inputVars, callVars, hostVars, launcherVars, gracefulStops, forceStops, shutdowns, uiPc>>

\* GracefulStop returns once the server is stopped
GracefulStopReturn(k) ==
    /\ uiPc # "exited"
    /\ k \in Shutdowns
    /\ shutdowns[k].gs = "waiting"
    /\ grpcServer = "stopped"
    /\ SetShutdown(k, [shutdowns[k] EXCEPT !.gs = "returned"])
    /\ UNCHANGED <<grpcServer, gracefulStops, forceStops, uiPc>>

\* CloseStopped with a slip: the server is stopped by force after a graceful
\* stop as well
CloseStoppedThenForce(k) ==
    /\ uiPc # "exited"
    /\ k \in Shutdowns
    /\ shutdowns[k].gs = "returned"
    /\ SetShutdown(k, [shutdowns[k] EXCEPT
                          !.gs = "done",
                          !.stopped = "closed",
                          !.branch = IF shutdowns[k].pc = "blocked" THEN "stopped" ELSE @,
                          !.pc = IF shutdowns[k].pc = "blocked" THEN "force" ELSE @])
    /\ UNCHANGED <<grpcServer, gracefulStops, forceStops, uiPc>>

\* close(stopped): a select that is waiting takes the case <-stopped
CloseStopped(k) ==
    /\ uiPc # "exited"
    /\ k \in Shutdowns
    /\ shutdowns[k].gs = "returned"
    /\ SetShutdown(k, [shutdowns[k] EXCEPT
                          !.gs = "done",
                          !.stopped = "closed",
                          !.branch = IF shutdowns[k].pc = "blocked" THEN "stopped" ELSE @,
                          !.pc = IF shutdowns[k].pc = "blocked" THEN "exitTrue" ELSE @])
    /\ UNCHANGED <<grpcServer, gracefulStops, forceStops, uiPc>>

\* the select is entered: time.After starts the timer; when stopped is closed
\* already the case <-stopped is taken, otherwise the select waits
SelectEnter(k) ==
    /\ uiPc # "exited"
    /\ k \in Shutdowns
    /\ shutdowns[k].pc = "select"
    /\ IF shutdowns[k].stopped = "closed"
       THEN SetShutdown(k, [shutdowns[k] EXCEPT !.branch = "stopped", !.pc = "exitTrue"])
       ELSE SetShutdown(k, [shutdowns[k] EXCEPT !.pc = "blocked"])
    /\ UNCHANGED <<grpcServer, gracefulStops, forceStops, uiPc>>

\* the timer fires while the select waits: the case <-time.After(timeout)
TimerFires(k) ==
    /\ uiPc # "exited"
    /\ k \in Shutdowns
    /\ shutdowns[k].pc = "blocked"
    /\ SetShutdown(k, [shutdowns[k] EXCEPT !.branch = "timeout", !.pc = "force"])
    /\ UNCHANGED <<grpcServer, gracefulStops, forceStops, uiPc>>

\* s.grpcServer.Stop()
ForceStop(k) ==
    /\ uiPc # "exited"
    /\ k \in Shutdowns
    /\ shutdowns[k].pc = "force"
    /\ forceStops' = forceStops + 1
    /\ grpcServer' = "stopped"
    /\ SetShutdown(k, [shutdowns[k] EXCEPT !.forced = @ + 1, !.pc = "exitTrue"])
    /\ UNCHANGED <<gracefulStops, uiPc>>

\* tryGracefulShutdown returns to its caller: the button callback goes on to
\* fyneApp.Quit(), the signal branch of main to os.Exit(0)
ShutdownReturn(k) ==
    /\ uiPc # "exited"
    /\ k \in Shutdowns
    /\ shutdowns[k].pc \in {"exitTrue", "exitFalse"}
    /\ SetShutdown(k, [shutdowns[k] EXCEPT
                          !.ret = IF shutdowns[k].pc = "exitTrue" THEN "true" ELSE "false",
                          !.pc = "returned"])
    /\ uiPc' = CASE shutdowns[k].site = "button" -> "quit"
                 [] shutdowns[k].site = "onClosed" -> "closed"
                 [] OTHER -> "exited"
    /\ UNCHANGED <<grpcServer, gracefulStops, forceStops>>

\* ShowAndRun returns: if s.grpcServer != nil { s.grpcServer.Stop() }; os.Exit(0)
FinalStop ==
    /\ uiPc \in {"quit", "closed"}
    /\ NoCallbackRunning
    /\ forceStops' = IF grpcServer # "nil" THEN forceStops + 1 ELSE forceStops
    /\ grpcServer' = IF grpcServer # "nil" THEN "stopped" ELSE grpcServer
    /\ uiPc' = "exited"
    /\ UNCHANGED <<inputVars, callVars, hostVars, launcherVars, gracefulStops, shutdowns>>

\* the host in direct mode after the start-up of main, with its service serving
ShutdownInit ==
    /\ enableRelay = FALSE
    /\ headless \in BOOLEAN
    /\ relayServerAddr = <<"relay.example", ":", "34000">>
    /\ sessionPasswordHash = <<>>
    /\ mainPc = "running"
    /\ stdout = (IF ~headless THEN <<IdentityLine(initialHostID)>> ELSE <<>>)
                \o <<IdentityLine(initialHostID)>>
    /\ pc = "idle"
    /\ controlConn = "nil"
    /\ parts = <<>>
    /\ currentRelayHostID = IF ~headless THEN initialHostID ELSE ""
    /\ ctrlOut = <<>>
    /\ lastLog = ""
    /\ sleepFor = 0
    /\ lineBudget = 0
    /\ vprRequests = <<>>
    /\ registrations = <<>>
    /\ tunnels = <<>>
    /\ peerBudget = 0
    /\ panicked = FALSE
    /\ LauncherIdle
    /\ ShutdownIdle
    /\ InputIdle
    /\ CallIdle

ShutdownNext ==
    \/ ShutdownButton
    \/ WindowClosed
    \/ SignalReceived
    \/ \E k \in Shutdowns : ShutdownEntry(k)
    \/ \E k \in Shutdowns : GracefulStopCall(k)
    \/ DrainComplete
    \/ \E k \in Shutdowns : GracefulStopReturn(k)
    \/ \E k \in Shutdowns : CloseStopped(k)
    \/ \E k \in Shutdowns : SelectEnter(k)
    \/ \E k \in Shutdowns : TimerFires(k)
    \/ \E k \in Shutdowns : ForceStop(k)
    \/ \E k \in Shutdowns : ShutdownReturn(k)
    \/ FinalStop

ShutdownSpec == ShutdownInit /\ [][ShutdownNext]_vars

\* an invocation takes its next step when it can: the goroutine runs, the select
\* is entered, the timer fires, Stop returns; nothing makes the server drain
ShutdownStep(k) ==
    \/ ShutdownEntry(k)
    \/ GracefulStopCall(k)
    \/ GracefulStopReturn(k)
    \/ CloseStopped(k)
    \/ SelectEnter(k)
    \/ TimerFires(k)
    \/ ForceStop(k)
    \/ ShutdownReturn(k)

ShutdownFairSpec ==
    /\ ShutdownSpec
    /\ WF_vars(ShutdownStep(1))
    /\ WF_vars(ShutdownStep(2))

\* the service was not running when the invocation began
NothingToStop(sd) == sd.atEntry \in {"nil", "stopped"}

\* C18: an invocation of tryGracefulShutdown that began with the service never
\* started or already stopped has returned false and called neither
\* GracefulStop nor Stop; one that returned true began with the service running.
C18_FalseWhenNothingToStop ==
    \A k \in Shutdowns :
        shutdowns[k].pc = "returned"
           => /\ NothingToStop(shutdowns[k])
                    => /\ shutdowns[k].ret = "false"
                       /\ shutdowns[k].graceful = 0
                       /\ shutdowns[k].forced = 0
              /\ shutdowns[k].ret = "true" => ~NothingToStop(shutdowns[k])

\* C19: past the first stop nobody stops the service again: an invocation of
\* tryGracefulShutdown that began with the service stopped calls neither
\* GracefulStop nor Stop, and the final stop after the GUI exits calls no Stop
\* on a stopped service; and no invocation faults.
C19_IdempotentPastFirstStop ==
    /\ [](\A k \in Shutdowns :
             shutdowns[k].atEntry = "stopped"
                => shutdowns[k].graceful = 0 /\ shutdowns[k].forced = 0)
    /\ [][ (uiPc \in {"quit", "closed"} /\ uiPc' = "exited" /\ grpcServer = "stopped")
              => (forceStops' = forceStops) ]_vars
    /\ [](~panicked)

\* C20: an invocation on a started service returns, and returns true; its
\* goroutine for GracefulStop is started before the select, Stop is called
\* exactly when the select took the timeout case, which it takes only while
\* stopped is not closed, and not at all when it took the case of stopped.
C20_BoundedShutdown ==
    /\ \A k \in {1, 2} :
          (k \in Shutdowns /\ shutdowns[k].pc = "entry" /\ grpcServer # "nil")
             ~> (k \in Shutdowns /\ shutdowns[k].pc = "returned" /\ shutdowns[k].ret = "true")
    /\ [](\A k \in Shutdowns :
            LET sd == shutdowns[k] IN
            /\ sd.pc \in {"select", "blocked", "force", "exitTrue"} => sd.gs # "none"
            /\ sd.forced <= 1
            /\ sd.forced = 1 => sd.branch = "timeout"
            /\ sd.branch = "stopped" => sd.forced = 0 /\ sd.stopped = "closed"
            /\ sd.pc \in {"exitTrue", "returned"} /\ sd.branch = "timeout" => sd.forced = 1
            /\ sd.pc = "force" => sd.branch = "timeout"
            /\ sd.forced = 1 => grpcServer = "stopped")
    /\ [][ \A k \in Shutdowns :
              (shutdowns'[k].branch = "timeout" /\ shutdowns[k].branch # "timeout")
                 => (shutdowns[k].stopped = "open" /\ shutdowns[k].gs # "none") ]_vars

\* C20 witness: the server never drained, the timeout case stopped it by force
\* and the invocation returned true
C20_Witness ==
    /\ Len(shutdowns) = 1
    /\ shutdowns[1].pc = "returned"
    /\ shutdowns[1].branch = "timeout"
    /\ shutdowns[1].forced = 1
    /\ shutdowns[1].ret = "true"
    /\ shutdowns[1].gs = "waiting"

\* C20 witness for the graceful case: the server drained in time
C20_WitnessGraceful ==
    /\ Len(shutdowns) = 1
    /\ shutdowns[1].pc = "returned"
    /\ shutdowns[1].branch = "stopped"
    /\ forceStops = 0
    /\ shutdowns[1].ret = "true"

-----------------------------------------------------------------------------
(* Reconnection of the registration loop *)

\* the loop dispatches a HOST_REGISTERED line that carries an identity
DispatchingRegistered ==
    pc = "dispatch" /\ Len(parts) >= 2 /\ parts[1] = "HOST_REGISTERED"

\* C21: when the control connection of a registered host drops, the loop closes
\* it and sleeps the fixed 5 s; the sleep is left by one step to one connection
\* attempt, made with no control connection open; a connection is opened by the
\* dial of the loop only, one dial per attempt; the drop and the reconnection
\* leave the identity as it was; and each HOST_REGISTERED with an identity,
\* on whichever connection, sets the identity to that value and prints its
\* identity line once, nothing else changing the identity after the start-up.
C21_ReconnectOnce ==
    /\ [][ (registrations # <<>> /\ pc = "read" /\ pc' \notin {"read", "dispatch"})
             => (/\ pc' = "sleep"
                 /\ sleepFor' = ReadLoopRetrySeconds
                 /\ controlConn' = "closed"
                 /\ currentRelayHostID' = currentRelayHostID
                 /\ stdout' = stdout) ]_vars
    /\ [][ (pc = "sleep" /\ pc' # "sleep")
             => (/\ pc' = "connect"
                 /\ sleepFor \in {ReadLoopRetrySeconds, RegisterRetrySeconds, ConnectRetrySeconds}
                 /\ sleepFor' = 0
                 /\ controlConn # "open" /\ controlConn' = controlConn) ]_vars
    /\ [][ (pc = "connect" /\ pc' # "connect")
             => (/\ controlConn # "open"
                 /\ \/ pc' = "register" /\ controlConn' = "open" /\ ctrlOut' = <<>>
                    \/ pc' = "sleep" /\ controlConn' = controlConn
                       /\ sleepFor' = ConnectRetrySeconds
                 /\ currentRelayHostID' = currentRelayHostID
                 /\ stdout' = stdout) ]_vars
    /\ [][ (controlConn' = "open" /\ controlConn # "open")
             => (pc = "connect" /\ sleepFor = 0) ]_vars
    /\ [][ (DispatchingRegistered /\ pc' # pc)
             => (/\ currentRelayHostID' = parts[2]
                 /\ stdout' = Append(stdout, IdentityLine(parts[2]))) ]_vars
    /\ [][ (mainPc = "running"
            /\ (currentRelayHostID' # currentRelayHostID \/ stdout' # stdout))
             => DispatchingRegistered ]_vars

\* C21 witness: the connection on which hostA was registered dropped, the loop
\* has connected again and sent REGISTER_HOST once, and has read nothing yet on
\* the new connection
C21_Witness ==
    /\ pc = "read"
    /\ controlConn = "open"
    /\ lastLog = "Sent REGISTER_HOST"
    /\ ctrlOut = <<WriteCall(RegisterCmd(initialHostID), TRUE)>>
    /\ parts = <<"HOST_REGISTERED", "hostA">>
    /\ registrations = <<"hostA">>
    /\ currentRelayHostID = "hostA"
    /\ stdout = <<IdentityLine("hostA")>>

\* the second registration, under another identity, has been processed
C21_WitnessSecond ==
    /\ pc = "read"
    /\ registrations = <<"hostA", "hostB">>
    /\ currentRelayHostID = "hostB"
    /\ stdout = <<IdentityLine("hostA"), IdentityLine("hostB")>>
    /\ ctrlOut = <<WriteCall(RegisterCmd(initialHostID), TRUE)>>


\* A control connection opened by a reconnect: hostA was registered on an earlier
\* connection, which was lost; the loop has dialled again and sent REGISTER_HOST,
\* and the relay has sent nothing yet on the new connection
ReconnectInit ==
    /\ enableRelay = TRUE
    /\ headless \in BOOLEAN
    /\ relayServerAddr = <<"relay.example", ":", "34000">>
    /\ sessionPasswordHash = <<>>
    /\ mainPc = "running"
    /\ stdout = <<IdentityLine("hostA")>>
    /\ pc = "read"
    /\ controlConn = "open"
    /\ parts = <<"HOST_REGISTERED", "hostA">>
    /\ currentRelayHostID = "hostA"
    /\ ctrlOut = <<WriteCall(RegisterCmd(initialHostID), TRUE)>>
    /\ lastLog = "Sent REGISTER_HOST"
    /\ sleepFor = 0
    /\ lineBudget = MaxReconnectLines
    /\ vprRequests = <<>>
    /\ registrations = <<"hostA">>
    /\ tunnels = <<>>
    /\ peerBudget = 0
    /\ panicked = FALSE
    /\ LauncherIdle
    /\ ShutdownIdle
    /\ InputIdle
    /\ CallIdle

\* the read loop on that one connection
ReconnectNext ==
    \/ \E line \in RelayLines : ReadLine(line)
    \/ HostRegistered
    \/ \E sendOk \in BOOLEAN : VerifyPasswordRequest(sendOk)
    \/ CreateTunnel
    \/ UnknownCommand

ReconnectSpec == ReconnectInit /\ [][ReconnectNext]_vars

\* a HOST_REGISTERED of the new connection has been processed: the first entry
\* of the history is the registration on the connection that was lost
RegisteredOnNewConnection == Len(RegistrationsDone) >= 2

\* C25: on a control connection opened by a reconnect no tunnel is launched
\* before the HOST_REGISTERED of that connection has been processed.
C25_RegistrationPerConnection ==
    [][ Len(tunnels') > Len(tunnels) => RegisteredOnNewConnection ]_vars


\* a write call on the control connection has just returned an error
WriteFailed ==
    /\ Len(ctrlOut') = Len(ctrlOut) + 1
    /\ ~ctrlOut'[Len(ctrlOut')].ok

\* C26: a write on the control connection that fails ends the connection: it is
\* closed and the loop goes to its backoff, it does not read on.
C26_WriteErrorDisconnects ==
    [][ WriteFailed => (controlConn' = "closed" /\ pc' = "sleep" /\ sleepFor' > 0) ]_vars


\* C28: the host has at most one open control connection. The variable
\* controlConn of the loop is the only handle on it: it is open exactly while
\* the loop registers, reads or dispatches, so the connection is closed (or none
\* was made yet) whenever the loop sleeps or dials; only a step of the loop at
\* its dial, its REGISTER_HOST write or its read opens or closes it, and lines
\* are read from it only by the loop at its read.
C28_OneControlConn ==
    /\ [](controlConn = "open" <=> pc \in {"register", "read", "dispatch"})
    /\ [](pc \in {"idle", "connect", "sleep"} => controlConn \in {"nil", "closed"})
    /\ [][ controlConn' # controlConn
             => (/\ pc \in {"connect", "register", "read"}
                 /\ pc' # pc
                 /\ tunnels' = tunnels) ]_vars
    /\ [][ lineBudget' # lineBudget => (pc = "read" /\ tunnels' = tunnels) ]_vars

\* C28 witness: on a connection made after a registered one was lost the write
\* of REGISTER_HOST failed; the connection is closed and the loop sleeps
C28_Witness ==
    /\ pc = "sleep"
    /\ sleepFor = RegisterRetrySeconds
    /\ lastLog = "Failed to send REGISTER_HOST"
    /\ controlConn = "closed"
    /\ registrations # <<>>


-----------------------------------------------------------------------------
(* The connections of a tunnel at its return *)

\* C27: a tunnel that has returned holds no open connection: a connection it
\* dialled with success is closed, and one it never came to dial (the return
\* was before, on the failed dial of the relay data endpoint, the failed write
\* of the identification or the failed dial of the local service) does not exist.
C27_NoOpenConnAfterReturn ==
    \A i \in TunnelIds :
        tunnels[i].pc = "done"
           => /\ tunnels[i].hostProxyConn \in {"nil", "closed"}
              /\ tunnels[i].localServiceConn \in {"nil", "closed"}
              /\ tunnels[i].localServiceConn = "closed" => tunnels[i].hostProxyConn = "closed"
              /\ tunnels[i].identWrites >= 1 => tunnels[i].hostProxyConn = "closed"

\* C27 witness: the dial of the local service failed after the identification
\* was sent, and the tunnel returned with the relay data connection closed
C27_Witness ==
    /\ tunnels[1].pc = "done"
    /\ tunnels[1].identWrites = 1
    /\ tunnels[1].toRelay # <<>>
    /\ tunnels[1].localServiceConn = "nil"
    /\ tunnels[1].hostProxyConn = "closed"


-----------------------------------------------------------------------------
(* The result of a session attempt and what the launcher does with it *)

\* the response line read by connectViaRelay is SESSION_READY with a port and a
\* token, and the relay control address is of the form host:port
SessionReady ==
    LET fields == Fields(response) IN
    /\ Len(fields) >= 3
    /\ fields[1] = "SESSION_READY"
    /\ SplitHostPortOk(relayControlAddr)

\* C29: connectViaRelay has returned connected=true exactly when the response
\* line it read is SESSION_READY with a port and a token and the relay control
\* address is host:port; the data address is then the host of that address
\* with the port of the line, the token the third field, the error nil. In every
\* other case connected is false, address and token are empty and the error is
\* not nil. The launcher has started the client exactly in the first case,
\* once, in relay mode, with that address and that token.
C29_ConnectedIffSessionReady ==
    cvrPc \in {"returned", "launched", "errorShown"} =>
        LET fields == Fields(response) IN
        /\ result.connected <=> SessionReady
        /\ SessionReady
              => /\ result.relayDataAddrForClient
                        = relayControlAddr[1] \o ":" \o fields[2]
                 /\ result.relayDataAddrForClient # ""
                 /\ result.sessionToken = fields[3]
                 /\ result.sessionToken # ""
                 /\ result.err = <<>>
        /\ ~SessionReady
              => /\ result.relayDataAddrForClient = ""
                 /\ result.sessionToken = ""
                 /\ result.err # <<>>
        /\ cvrPc = "returned" => launches = <<>>
        /\ cvrPc = "launched"
              => /\ SessionReady
                 /\ launches = <<LaunchCall(result.relayDataAddrForClient, TRUE,
                                            result.sessionToken)>>
        /\ cvrPc = "errorShown" => ~SessionReady /\ launches = <<>>

\* C29 witness: the relay answered SESSION_READY 40002 <token> and the launcher
\* started the client in relay mode on relay.example:40002 with that token
C29_Witness ==
    /\ cvrPc = "launched"
    /\ Fields(response) = <<"SESSION_READY", "40002", OtherToken>>
    /\ launches = <<LaunchCall("relay.example:40002", TRUE, OtherToken)>>

\* the relay answered SESSION_READY without a token and the error dialog was shown
C29_WitnessShort ==
    /\ cvrPc = "errorShown"
    /\ Fields(response) = <<"SESSION_READY", "40001">>
    /\ launches = <<>>


-----------------------------------------------------------------------------
(* The data endpoint as the host and as the client derive it *)

\* relay control addresses given to the host and to the launcher
EndpointAddrs == { <<"relay.example", ":", "34000">>, <<"10.0.0.7", ":", "34000">> }

\* the CREATE_TUNNEL lines that carry a port and a token
EndpointLines == { line \in RelayLines : line[1] = "CREATE_TUNNEL" /\ Len(line) >= 5 }

\* A registered host and a launcher that use the same relay control address: the
\* host is at the read of its next line, the launcher is about to call
\* connectViaRelay
EndpointInit ==
    /\ enableRelay = TRUE
    /\ headless = TRUE
    /\ relayServerAddr \in EndpointAddrs
    /\ sessionPasswordHash = <<>>
    /\ mainPc = "running"
    /\ stdout = <<IdentityLine("hostA")>>
    /\ pc = "read"
    /\ controlConn = "open"
    /\ parts = <<"HOST_REGISTERED", "hostA">>
    /\ currentRelayHostID = "hostA"
    /\ ctrlOut = <<WriteCall(RegisterCmd(initialHostID), TRUE)>>
    /\ lastLog = "Effective Host ID (relay mode)"
    /\ sleepFor = 0
    /\ lineBudget = MaxEndpointLines
    /\ vprRequests = <<>>
    /\ registrations = <<"hostA">>
    /\ tunnels = <<>>
    /\ peerBudget = 0
    /\ panicked = FALSE
    /\ ShutdownIdle
    /\ InputIdle
    /\ CallIdle
    /\ targetHostID = "hostA"
    /\ plainTextPassword \in PasswordAttempts
    /\ relayControlAddr = relayServerAddr
    /\ cvrPc = "dial"
    /\ clientConn = "nil"
    /\ clientOut = <<>>
    /\ response = <<>>
    /\ result = <<>>
    /\ outcome = ""
    /\ launches = <<>>

EndpointNext ==
    \/ \E line \in EndpointLines : ReadLine(line)
    \/ CreateTunnel
    \/ ClientDialOk
    \/ \E cause \in DialErrors : ClientDialFail(cause)
    \/ ClientSendOk
    \/ \E cause \in WriteErrors : ClientSendFail(cause)
    \/ \E cause \in ReadErrors : ClientReadFail(cause)
    \/ \E answer \in RelayAnswers : ClientReadAnswer(answer)
    \/ AfterAttempt

EndpointSpec == EndpointInit /\ [][EndpointNext]_vars

\* the host has launched a tunnel for the CREATE_TUNNEL line in parts, and
\* connectViaRelay has returned connected on a SESSION_READY line that names
\* the same dynamic port
SameDynamicPort ==
    /\ pc = "read"
    /\ tunnels # <<>>
    /\ parts[1] = "CREATE_TUNNEL"
    /\ cvrPc \in {"returned", "launched"}
    /\ result.connected
    /\ Fields(response)[2] = parts[2]

\* C30: with the same relay control address and the same dynamic port the data
\* endpoint of the host's tunnel and the data address returned to the client are
\* the same text: the host of the relay control address, a colon and the
\* dynamic port; the port in it is the dynamic port, not the control port.
C30_SameDataEndpoint ==
    SameDynamicPort =>
        LET t == tunnels[Len(tunnels)] IN
        /\ Text(t.relayDataAddrForHost) = result.relayDataAddrForClient
        /\ result.relayDataAddrForClient = relayControlAddr[1] \o ":" \o parts[2]
        /\ t.relayDataAddrForHost = <<relayServerAddr[1], ":", parts[2]>>
        /\ parts[2] # relayServerAddr[3]
              => /\ t.relayDataAddrForHost[3] # relayServerAddr[3]
                 /\ result.relayDataAddrForClient # Text(relayControlAddr)

\* C30 witness: CREATE_TUNNEL 40002 on the host and SESSION_READY 40002 for the
\* client of the relay at 10.0.0.7:34000 both gave 10.0.0.7:40002
C30_Witness ==
    /\ SameDynamicPort
    /\ relayServerAddr = <<"10.0.0.7", ":", "34000">>
    /\ parts[2] = "40002"
    /\ Text(tunnels[1].relayDataAddrForHost) = "10.0.0.7:40002"
    /\ result.relayDataAddrForClient = "10.0.0.7:40002"


-----------------------------------------------------------------------------
(* isNetworkCloseError on its own *)

\* fmt.Errorf(""): an error, with an empty message
EmptyMessage == <<"">>

\* messages of a closed or broken connection, as the operating systems word them
CloseTexts ==
    { <<"use", "of", "closed", "network", "connection">>,
      <<"connection", "reset", "by", "peer">>,
      <<"broken", "pipe">>,
      <<"forcibly", "closed", "by", "the", "remote", "host.">>,
      <<"forcibly", "closed">> }

\* messages of other failures, some of them with a part of the texts above
OtherTexts ==
    { <<"EOF">>,
      <<"unexpected", "EOF">>,
      <<"i/o", "timeout">>,
      <<"connection", "timed", "out">>,
      <<"connection", "refused">>,
      <<"connection", "reset">>,
      <<"reset", "by", "peer">>,
      <<"broken">>,
      <<"pipe", "broken">>,
      <<"closed", "network", "connection">>,
      <<"forcibly">>,
      <<"some", "other", "error">> }

\* what the callers put before and after the text of the cause
ErrorPrefixes ==
    { <<>>,
      <<"write:">>,
      <<"read", "tcp", "127.0.0.1:1234->127.0.0.1:5678:">>,
      <<"wsarecv:", "An", "existing", "connection", "was">> }

ErrorSuffixes == { <<>>, <<"(bytes:", "0)">>, <<"on", "the", "remote", "host.">> }

\* an error value about to be classified at the end of a copy
NewErrCall(prefix, core, suffix) ==
    [ prefix |-> prefix, core |-> core, suffix |-> suffix,
      err |-> prefix \o core \o suffix,
      pc |-> "call", result |-> FALSE, log |-> "" ]

ClassifyInit ==
    /\ HostAbsent
    /\ LauncherIdle
    /\ ShutdownIdle
    /\ InputIdle
    /\ idCall = <<>>
    /\ \/ errCall = NewErrCall(<<>>, NoError, <<>>)
       \/ errCall = NewErrCall(<<>>, EmptyMessage, <<>>)
       \/ \E prefix \in ErrorPrefixes, core \in CloseTexts \cup OtherTexts,
             suffix \in ErrorSuffixes :
              errCall = NewErrCall(prefix, core, suffix)

\* the call isNetworkCloseError(errCopy)
Classify ==
    /\ errCall # <<>>
    /\ errCall.pc = "call"
    /\ errCall' = [errCall EXCEPT !.pc = "classified",
                                  !.result = isNetworkCloseError(errCall.err)]
    /\ UNCHANGED <<hostVars, launcherVars, shutdownVars, inputVars, idCall>>

\* the log line of the copy goroutine that got errCopy from io.Copy
LogCopyEnd ==
    /\ errCall # <<>>
    /\ errCall.pc = "classified"
    /\ errCall' = [errCall EXCEPT !.pc = "logged", !.log = CopyLog(errCall.err)]
    /\ UNCHANGED <<hostVars, launcherVars, shutdownVars, inputVars, idCall>>

ClassifyNext ==
    \/ Classify
    \/ LogCopyEnd

ClassifySpec == ClassifyInit /\ [][ClassifyNext]_vars

\* C23: isNetworkCloseError is true for io.EOF and for every error whose
\* message has one of the texts of a closed connection in it, whatever stands
\* before and after the text; it is false for nil, for an error with an empty
\* message and for an error with none of the texts; the copy goroutine logs an
\* error classified true at INFO level, and at ERROR level only an error
\* classified false.
C23_CloseErrorsClassified ==
    (errCall # <<>> /\ errCall.pc # "call") =>
        /\ errCall.err = EOF => errCall.result
        /\ errCall.core \in CloseTexts => errCall.result
        /\ errCall.err = NoError => ~errCall.result
        /\ errCall.err = EmptyMessage => ~errCall.result
        /\ (errCall.core \in OtherTexts /\ errCall.err # EOF) => ~errCall.result
        /\ errCall.pc = "logged" =>
              /\ errCall.result => errCall.log = "INFO"
              /\ errCall.log = "ERROR" <=> (errCall.err # NoError /\ ~errCall.result)

\* C23 witness: "write: broken pipe (bytes: 0)" classified true and logged at
\* INFO level
C23_Witness ==
    /\ errCall # <<>>
    /\ errCall.pc = "logged"
    /\ errCall.err = <<"write:", "broken", "pipe", "(bytes:", "0)">>
    /\ errCall.result
    /\ errCall.log = "INFO"

\* C23 witness: a timeout classified false and logged at ERROR level
C23_WitnessOther ==
    /\ errCall # <<>>
    /\ errCall.pc = "logged"
    /\ errCall.err = <<"write:", "i/o", "timeout">>
    /\ ~errCall.result
    /\ errCall.log = "ERROR"


-----------------------------------------------------------------------------
(* generateRandomHostID on its own *)

\* the digits of the lower-case hexadecimal alphabet of encoding/hex
HexDigits ==
    <<"0", "1", "2", "3", "4", "5", "6", "7", "8", "9", "a", "b", "c", "d", "e", "f">>

DecDigits == <<"0", "1", "2", "3", "4", "5", "6", "7", "8", "9">>

\* a string as the sequence of its characters
RandfailChars == <<"r", "a", "n", "d", "f", "a", "i", "l">>

\* hex.EncodeToString with a slip: no leading zero for a byte below 16
RECURSIVE EncodeToStringNoPad(_)
EncodeToStringNoPad(bytes) ==
    IF bytes = <<>> THEN <<>>
    ELSE LET b == Head(bytes) IN
         (IF b < 16 THEN <<>> ELSE <<HexDigits[(b \div 16) + 1]>>)
         \o <<HexDigits[(b % 16) + 1]>> \o EncodeToStringNoPad(Tail(bytes))

\* hex.EncodeToString: two digits for every byte, the high half first
RECURSIVE EncodeToString(_)
EncodeToString(bytes) ==
    IF bytes = <<>> THEN <<>>
    ELSE LET b == Head(bytes) IN
         <<HexDigits[(b \div 16) + 1], HexDigits[(b % 16) + 1]>>
         \o EncodeToString(Tail(bytes))

\* the verb %0<width>d of fmt.Sprintf for a value of at most <width> digits
RECURSIVE ZeroPadded(_, _)
ZeroPadded(v, width) ==
    IF width = 0 THEN <<>>
    ELSE ZeroPadded(v \div 10, width - 1) \o <<DecDigits[(v % 10) + 1]>>

\* fmt.Sprintf("randfail%08d", time.Now().UnixNano()%100000000)
RandFail(nanos) == RandfailChars \o ZeroPadded(nanos % 100000000, 8)

\* the byte lengths the program and its test ask for
ByteLengths == {4, 8}

\* values of a byte that rand.Read may deliver
ByteValues == {0, 10, 255}

\* readings of the clock, in nanoseconds
Nanos == {0, 42, 99999999, 100000007, 2147483647}

\* a call generateRandomHostID(byteLength): what rand.Read does and what the
\* clock shows are inputs
NewIdCall(byteLength, randOk, bytes, nanos) ==
    [ byteLength |-> byteLength, randOk |-> randOk, bytes |-> bytes,
      nanos |-> nanos, pc |-> "call", result |-> <<>> ]

HostIdInit ==
    /\ HostAbsent
    /\ LauncherIdle
    /\ ShutdownIdle
    /\ InputIdle
    /\ errCall = <<>>
    /\ \E byteLength \in ByteLengths :
          \/ \E bytes \in [1..byteLength -> ByteValues] :
                idCall = NewIdCall(byteLength, TRUE, bytes, 0)
          \/ \E nanos \in Nanos :
                idCall = NewIdCall(byteLength, FALSE, [k \in 1..byteLength |-> 0], nanos)

generateRandomHostID(call) ==
    IF ~call.randOk
    THEN RandFail(call.nanos)
    ELSE EncodeToString(call.bytes)

\* the call returns
GenerateRandomHostID ==
    /\ idCall # <<>>
    /\ idCall.pc = "call"
    /\ idCall' = [idCall EXCEPT !.pc = "returned",
                                !.result = generateRandomHostID(idCall)]
    /\ UNCHANGED <<hostVars, launcherVars, shutdownVars, inputVars, errCall>>

HostIdNext == GenerateRandomHostID

HostIdSpec == HostIdInit /\ [][HostIdNext]_vars

\* the characters of s are hexadecimal digits
IsHex(s) == \A k \in 1..Len(s) : \E d \in 1..16 : s[k] = HexDigits[d]

\* C24: generateRandomHostID(N) returns 2N hexadecimal digits when rand.Read
\* succeeds, and a non-empty string on every path: the fallback is "randfail"
\* followed by eight decimal digits.
C24_HexOfTwiceTheLength ==
    (idCall # <<>> /\ idCall.pc = "returned") =>
        /\ idCall.randOk =>
              /\ Len(idCall.result) = 2 * idCall.byteLength
              /\ IsHex(idCall.result)
        /\ idCall.result # <<>>
        /\ ~idCall.randOk =>
              /\ SubSeq(idCall.result, 1, 8) = RandfailChars
              /\ Len(idCall.result) = 16

\* C24 witness: four bytes with a leading zero digit gave eight digits
C24_Witness ==
    /\ idCall # <<>>
    /\ idCall.pc = "returned"
    /\ idCall.randOk
    /\ idCall.bytes = <<0, 10, 255, 10>>
    /\ idCall.result = <<"0", "0", "0", "a", "f", "f", "0", "a">>

\* C24 witness: the fallback at the clock reading 100000007
C24_WitnessFallback ==
    /\ idCall # <<>>
    /\ idCall.pc = "returned"
    /\ ~idCall.randOk
    /\ idCall.nanos = 100000007
    /\ idCall.result = RandfailChars \o <<"0", "0", "0", "0", "0", "0", "0", "7">>


-----------------------------------------------------------------------------
(* Input events: the channel of GetFeed and the channel behind the overlay *)

\* GetFeed after go handleInputEvents and the start of receiveInputEvents.
\* Messages are numbered by their receipt; the histories are for the properties.
NewFeed ==
    [ inputEvents |-> <<>>, closed |-> FALSE, received |-> 0,
      accepted |-> <<>>, dropped |-> <<>>, handled |-> <<>>,
      receiver |-> "recv", handler |-> "range" ]

\* a mouse overlay with the permissions the host has granted
NewOverlay(mouse) ==
    [ inputEventsChan |-> <<>>, canControlMouse |-> mouse, produced |-> 0,
      accepted |-> <<>>, dropped |-> <<>>, denied |-> <<>>, taken |-> <<>> ]

FeedInit ==
    /\ HostAbsent
    /\ LauncherIdle
    /\ ShutdownIdle
    /\ CallIdle
    /\ feed = NewFeed
    /\ \E mouse \in BOOLEAN : overlay = NewOverlay(mouse)

\* select { case ch <- x: default: } on a buffered channel: the send is taken
\* when the buffer has room
TrySend(ch, cap, x) == IF Len(ch) < cap THEN Append(ch, x) ELSE ch

\* receiveInputEvents with a slip: a plain send, which waits for room
ReceiveInputEventBlocking ==
    /\ feed # <<>>
    /\ feed.receiver = "recv"
    /\ feed.received < MaxFeedEvents
    /\ Len(feed.inputEvents) < InputEventsCap
    /\ LET reqMsg == feed.received + 1 IN
       feed' = [feed EXCEPT !.received = reqMsg,
                            !.inputEvents = Append(@, reqMsg),
                            !.accepted = Append(@, reqMsg)]
    /\ UNCHANGED <<hostVars, launcherVars, shutdownVars, callVars, overlay>>

\* receiveInputEvents: stream.Recv() delivers a message; it is sent to the
\* channel if there is room and dropped with a log line otherwise
ReceiveInputEvent ==
    /\ feed # <<>>
    /\ feed.receiver = "recv"
    /\ feed.received < MaxFeedEvents
    /\ LET reqMsg == feed.received + 1
           room == Len(feed.inputEvents) < InputEventsCap
       IN feed' = [feed EXCEPT
                     !.received = reqMsg,
                     !.inputEvents = TrySend(@, InputEventsCap, reqMsg),
                     !.accepted = IF room THEN Append(@, reqMsg) ELSE @,
                     !.dropped = IF room THEN @ ELSE Append(@, reqMsg)]
    /\ UNCHANGED <<hostVars, launcherVars, shutdownVars, callVars, overlay>>

\* receiveInputEvents: stream.Recv() returns an error and the function returns it
ReceiveError ==
    /\ feed # <<>>
    /\ feed.receiver = "recv"
    /\ feed' = [feed EXCEPT !.receiver = "returned"]
    /\ UNCHANGED <<hostVars, launcherVars, shutdownVars, callVars, overlay>>

\* CloseInputEvents with a slip: the channel is closed without waiting for the
\* receiver
CloseInputEventsEarly ==
    /\ feed # <<>>
    /\ ~feed.closed
    /\ feed' = [feed EXCEPT !.closed = TRUE]
    /\ UNCHANGED <<hostVars, launcherVars, shutdownVars, callVars, overlay>>

\* GetFeed: close(inputEvents) once the receiver has returned
CloseInputEvents ==
    /\ feed # <<>>
    /\ feed.receiver = "returned"
    /\ ~feed.closed
    /\ feed' = [feed EXCEPT !.closed = TRUE]
    /\ UNCHANGED <<hostVars, launcherVars, shutdownVars, callVars, overlay>>

\* handleInputEvents: for reqMsg := range inputEvents takes the oldest message
HandleInputEvent ==
    /\ feed # <<>>
    /\ feed.handler = "range"
    /\ feed.inputEvents # <<>>
    /\ feed' = [feed EXCEPT !.inputEvents = Tail(@),
                            !.handled = Append(@, Head(feed.inputEvents))]
    /\ UNCHANGED <<hostVars, launcherVars, shutdownVars, callVars, overlay>>

\* handleInputEvents: the range ends when the channel is closed and empty
HandlerStops ==
    /\ feed # <<>>
    /\ feed.handler = "range"
    /\ feed.closed
    /\ feed.inputEvents = <<>>
    /\ feed' = [feed EXCEPT !.handler = "stopped"]
    /\ UNCHANGED <<hostVars, launcherVars, shutdownVars, callVars, overlay>>

\* the body shared by sendMouseEvent and sendScrollEvent: the permission test,
\* then the send with a default case
OverlaySend(eventType) ==
    /\ overlay # <<>>
    /\ overlay.produced < MaxOverlayEvents
    /\ LET req == <<overlay.produced + 1, eventType>>
           room == Len(overlay.inputEventsChan) < OverlayChanCap
       IN overlay' =
            IF ~overlay.canControlMouse
            THEN [overlay EXCEPT !.produced = @ + 1, !.denied = Append(@, req)]
            ELSE [overlay EXCEPT
                    !.produced = @ + 1,
                    !.inputEventsChan = TrySend(@, OverlayChanCap, req),
                    !.accepted = IF room THEN Append(@, req) ELSE @,
                    !.dropped = IF room THEN @ ELSE Append(@, req)]
    /\ UNCHANGED <<hostVars, launcherVars, shutdownVars, callVars, feed>>

MouseEventTypes == {"down", "up"}

sendMouseEvent(eventType) == OverlaySend(eventType)

sendScrollEvent == OverlaySend("scroll")

\* the other end of the overlay's channel takes the oldest event
OverlayChanReceive ==
    /\ overlay # <<>>
    /\ overlay.inputEventsChan # <<>>
    /\ overlay' = [overlay EXCEPT !.inputEventsChan = Tail(@),
                                  !.taken = Append(@, Head(overlay.inputEventsChan))]
    /\ UNCHANGED <<hostVars, launcherVars, shutdownVars, callVars, feed>>

FeedNext ==
    \/ ReceiveInputEvent
    \/ ReceiveError
    \/ CloseInputEvents
    \/ HandleInputEvent
    \/ HandlerStops
    \/ \E eventType \in MouseEventTypes : sendMouseEvent(eventType)
    \/ sendScrollEvent
    \/ OverlayChanReceive

FeedSpec == FeedInit /\ [][FeedNext]_vars

\* the members of a sequence
Range(s) == { s[k] : k \in 1..Len(s) }

\* the numbers of s grow from left to right
Increasing(s) == \A j, k \in 1..Len(s) : j < k => s[j] < s[k]

\* the ordinals of the overlay's events in s
Ordinals(s) == [k \in 1..Len(s) |-> s[k][1]]

\* C22: a full input-event channel makes the producer drop the new event and go
\* on: the queue is left as it was, the server's receive loop is ready for the
\* next message whatever the filling of the channel, and so are the senders of
\* the overlay; the events the consumer has taken followed by the queue are the
\* accepted events in the order of their acceptance, which is the order of
\* their receipt with the dropped events left out.
C22_DropNewestNeverBlocks ==
    /\ [][ (feed # <<>> /\ feed'.received > feed.received
                /\ Len(feed.inputEvents) = InputEventsCap)
           => (/\ feed'.inputEvents = feed.inputEvents
               /\ feed'.accepted = feed.accepted
               /\ feed'.dropped = Append(feed.dropped, feed'.received)
               /\ feed'.receiver = "recv") ]_vars
    /\ [][ (feed # <<>> /\ feed'.received > feed.received
                /\ Len(feed.inputEvents) < InputEventsCap)
           => (/\ feed'.inputEvents = Append(feed.inputEvents, feed'.received)
               /\ feed'.dropped = feed.dropped) ]_vars
    /\ [][ (overlay # <<>> /\ overlay'.produced > overlay.produced
                /\ overlay.canControlMouse
                /\ Len(overlay.inputEventsChan) = OverlayChanCap)
           => (/\ overlay'.inputEventsChan = overlay.inputEventsChan
               /\ overlay'.accepted = overlay.accepted
               /\ Len(overlay'.dropped) = Len(overlay.dropped) + 1) ]_vars
    /\ [](feed # <<>> =>
            /\ (feed.receiver = "recv" /\ feed.received < MaxFeedEvents)
                  => ENABLED ReceiveInputEvent
            /\ Len(feed.inputEvents) <= InputEventsCap
            /\ feed.accepted = feed.handled \o feed.inputEvents
            /\ Increasing(feed.accepted)
            /\ Increasing(feed.dropped)
            /\ Range(feed.accepted) \cup Range(feed.dropped) = 1..feed.received
            /\ Range(feed.accepted) \cap Range(feed.dropped) = {})
    /\ [](overlay # <<>> =>
            /\ overlay.produced < MaxOverlayEvents => ENABLED sendScrollEvent
            /\ Len(overlay.inputEventsChan) <= OverlayChanCap
            /\ overlay.accepted = overlay.taken \o overlay.inputEventsChan
            /\ Increasing(Ordinals(overlay.accepted))
            /\ Range(Ordinals(overlay.accepted)) \cup Range(Ordinals(overlay.dropped))
                 \cup Range(Ordinals(overlay.denied)) = 1..overlay.produced)

\* C22 witness: the third message met a full channel and was dropped, the
\* handler then took the first and the fourth message was queued behind the second
C22_Witness ==
    /\ feed # <<>>
    /\ feed.received = 4
    /\ feed.dropped = <<3>>
    /\ feed.handled = <<1>>
    /\ feed.inputEvents = <<2, 4>>
    /\ feed.accepted = <<1, 2, 4>>

\* C22 witness: the overlay dropped its second event on a full channel and had
\* the third accepted after the first was taken
C22_WitnessOverlay ==
    /\ overlay # <<>>
    /\ overlay.canControlMouse
    /\ Ordinals(overlay.dropped) = <<2>>
    /\ Ordinals(overlay.taken) = <<1>>
    /\ Ordinals(overlay.inputEventsChan) = <<3>>


-----------------------------------------------------------------------------
(* The password attempt from the launcher to the host *)

\* password attempts as texts: words and blanks, none with a newline
PasswordTexts ==
    { <<>>,
      <<"sesame">>,
      Secret,
      <<"a", SP, "b", SP, "c">>,
      <<"open", SP, SP, "sesame">>,
      <<SP, "sesame">>,
      <<"sesame", SP>>,
      <<SP>>,
      <<"open", SP, "sesame", SP, SP>> }

\* cmdStr of connectViaRelay with the password as a text
InitiateClientSessionLine(id, password) ==
    IF password = <<>> THEN <<"INITIATE_CLIENT_SESSION", SP, id, "\n">>
    ELSE <<"INITIATE_CLIENT_SESSION", SP, id, SP>> \o password \o <<"\n">>

\* A registered host whose password is the one the user of the launcher types:
\* the launcher has dialled the relay and is about to send its command
RoundTripInit ==
    /\ enableRelay = TRUE
    /\ headless = TRUE
    /\ relayServerAddr = <<"relay.example", ":", "34000">>
    /\ mainPc = "running"
    /\ stdout = <<IdentityLine("hostA")>>
    /\ pc = "read"
    /\ controlConn = "open"
    /\ parts = <<"HOST_REGISTERED", "hostA">>
    /\ currentRelayHostID = "hostA"
    /\ ctrlOut = <<WriteCall(RegisterCmd(initialHostID), TRUE)>>
    /\ lastLog = "Effective Host ID (relay mode)"
    /\ sleepFor = 0
    /\ lineBudget = 1
    /\ vprRequests = <<>>
    /\ registrations = <<"hostA">>
    /\ tunnels = <<>>
    /\ peerBudget = 0
    /\ panicked = FALSE
    /\ ShutdownIdle
    /\ InputIdle
    /\ CallIdle
    /\ targetHostID = "hostA"
    /\ plainTextPassword \in PasswordTexts
    /\ sessionPasswordHash \in {BcryptHash(plainTextPassword), BcryptHash(Secret)}
    /\ relayControlAddr = relayServerAddr
    /\ cvrPc = "send"
    /\ clientConn = "open"
    /\ clientOut = <<>>
    /\ response = <<>>
    /\ result = <<>>
    /\ outcome = ""
    /\ launches = <<>>

\* fmt.Fprint(conn, cmdStr) succeeds
ClientSendLine ==
    /\ cvrPc = "send"
    /\ clientOut' = Append(clientOut,
                       WriteCall(InitiateClientSessionLine(targetHostID, plainTextPassword), TRUE))
    /\ cvrPc' = "read"
    /\ UNCHANGED <<inputVars, callVars, launches, shutdownVars, hostVars, targetHostID,
                   plainTextPassword, relayControlAddr, clientConn, response, result,
                   outcome>>

\* the text behind the host id of an INITIATE_CLIENT_SESSION line
TrailingText(line) ==
    IF Len(line) <= 5 THEN <<>> ELSE SubSeq(line, 5, Len(line) - 1)

\* the line the relay sends to the host for a session command: the token it made
\* and the trailing text of the command as it came
ForwardedRequest(line, token) ==
    IF TrailingText(line) = <<>>
    THEN <<"VERIFY_PASSWORD_REQUEST", SP, token>>
    ELSE <<"VERIFY_PASSWORD_REQUEST", SP, token, SP>> \o TrailingText(line)

\* the relay forwards the command of the launcher and the host reads the line
RelayForward(token) ==
    /\ clientOut # <<>>
    /\ ReadLine(ForwardedRequest(clientOut[1].line, token))

RoundTripNext ==
    \/ ClientSendLine
    \/ \E token \in SessionTokens : RelayForward(token)
    \/ \E sendOk \in BOOLEAN : VerifyPasswordRequest(sendOk)

RoundTripSpec == RoundTripInit /\ [][RoundTripNext]_vars

\* C31: the attempt the host compares against its hash is the password the
\* launcher was given, blanks included, and the empty attempt when no password
\* was given; so the host whose hash was made from that password grants access.
C31_PasswordRoundTrip ==
    /\ DispatchingVerify => Attempt = plainTextPassword
    /\ (VerifyResponses # <<>> /\ sessionPasswordHash = BcryptHash(plainTextPassword))
          => ResponseVerdict(VerifyResponses[1]) = "true"


-----------------------------------------------------------------------------
(* The identity hint of REGISTER_HOST *)

\* C33: the first write on every control connection is REGISTER_HOST with the
\* local identity hint the process was started with, whatever identity the relay
\* has assigned before; no other REGISTER_HOST is written on the connection, and
\* nothing is read from a connection before that write.
C33_RegisterWithLocalHint ==
    /\ [](ctrlOut # <<>> =>
            /\ ctrlOut[1].line = RegisterCmd(initialHostID)
            /\ \A k \in 2..Len(ctrlOut) : ctrlOut[k].line[1] # "REGISTER_HOST")
    /\ []((enableRelay /\ pc \in {"read", "dispatch"}) =>
            (ctrlOut # <<>> /\ ctrlOut[1].ok))
    /\ [][ (pc = "register" /\ pc' # "register")
           => (\E ok \in BOOLEAN :
                 ctrlOut' = <<WriteCall(RegisterCmd(initialHostID), ok)>>) ]_vars
    /\ [][ (pc = "connect" /\ pc' = "register") => ctrlOut' = <<>> ]_vars

\* C33 witness: the relay had assigned hostA, the connection was lost, and on
\* the new connection REGISTER_HOST went out with the local hint
C33_Witness ==
    /\ pc = "read"
    /\ controlConn = "open"
    /\ lastLog = "Sent REGISTER_HOST"
    /\ currentRelayHostID = "hostA"
    /\ currentRelayHostID # initialHostID
    /\ ctrlOut = <<WriteCall(<<"REGISTER_HOST", SP, "a1b2c3d4", "\n">>, TRUE)>>


-----------------------------------------------------------------------------
(* The close of inputEvents *)

\* handleInputEvents is a goroutine that takes what is in the channel and
\* notices its close
FeedFairSpec ==
    /\ FeedSpec
    /\ WF_vars(HandleInputEvent)
    /\ WF_vars(HandlerStops)

\* C34: inputEvents is closed only after receiveInputEvents has returned, and
\* nothing is sent to the channel once it is closed; after the close the
\* handler takes the queued events one by one, oldest first, and then stops,
\* having handled every accepted event.
C34_CloseAfterReceiver ==
    /\ [](feed.closed => feed.receiver = "returned")
    /\ [][ feed'.received > feed.received => (~feed.closed /\ ~feed'.closed) ]_vars
    /\ [][ feed.closed
           => (/\ feed'.closed
               /\ \/ feed'.inputEvents = feed.inputEvents
                  \/ /\ feed.inputEvents # <<>>
                     /\ feed'.inputEvents = Tail(feed.inputEvents)
                     /\ feed'.handled = Append(feed.handled, Head(feed.inputEvents))) ]_vars
    /\ [](feed.handler = "stopped" =>
            (feed.closed /\ feed.inputEvents = <<>> /\ feed.handled = feed.accepted))
    /\ (feed.closed ~> feed.handler = "stopped")

\* C34 witness: the channel was closed with two events queued, and the handler
\* is still at work
C34_Witness ==
    /\ feed # <<>>
    /\ feed.closed
    /\ feed.receiver = "returned"
    /\ Len(feed.inputEvents) = 2
    /\ feed.handler = "range"

\* C34 witness: the handler has stopped after the close with all accepted
\* events handled, one of them after a drop
C34_WitnessStopped ==
    /\ feed # <<>>
    /\ feed.handler = "stopped"
    /\ feed.dropped = <<3>>
    /\ feed.handled = <<1, 2, 4>>


-----------------------------------------------------------------------------
(* GetFeed and the screen capture *)

\* GetFeed at its entry. capture is "none" before screen.NewScreenCapture and
\* when it failed; sender is the sendScreenFeed goroutine; context is the
\* context of the stream, which is done when the client has gone or the handler
\* has returned.
NewStream ==
    [ getFeed |-> "capture", capture |-> "none", videoCaptureActive |-> FALSE,
      receiver |-> "none", closed |-> FALSE, sender |-> "none",
      frameCounter |-> 0, context |-> "live", readsOfClosed |-> 0 ]

ScreenInit ==
    /\ HostAbsent
    /\ LauncherIdle
    /\ ShutdownIdle
    /\ CallIdle
    /\ overlay = <<>>
    /\ feed = NewStream

SetFeed(f) ==
    /\ feed' = f
    /\ UNCHANGED <<hostVars, launcherVars, shutdownVars, callVars, overlay>>

\* the deferred capture.Close() at a return of GetFeed, and the end of the
\* stream's context that the return brings
ReturnFromGetFeed(f) ==
    [f EXCEPT !.getFeed = "returned",
              !.capture = IF f.videoCaptureActive THEN "closed" ELSE @,
              !.context = "done"]

\* screen.NewScreenCapture(): on success the close is deferred, on failure the
\* stream goes on without video
NewScreenCapture(ok) ==
    /\ feed.getFeed = "capture"
    /\ SetFeed([feed EXCEPT !.getFeed = "init",
                            !.capture = IF ok THEN "open" ELSE "none",
                            !.videoCaptureActive = ok])

\* the first stream.Recv(): an error returns from GetFeed
RecvInit(ok) ==
    /\ feed.getFeed = "init"
    /\ SetFeed(IF ok THEN [feed EXCEPT !.getFeed = "start"]
               ELSE ReturnFromGetFeed(feed))

\* the go statements of GetFeed: the handler, the receiver and, with an active
\* capture, sendScreenFeed; GetFeed then waits on errChan
StartGoroutines ==
    /\ feed.getFeed = "start"
    /\ SetFeed([feed EXCEPT !.getFeed = "wait",
                            !.receiver = "recv",
                            !.sender = IF feed.videoCaptureActive THEN "select" ELSE "none"])

\* the client goes away: the context of the stream is done
ClientGone ==
    /\ feed.getFeed = "wait"
    /\ feed.context = "live"
    /\ SetFeed([feed EXCEPT !.context = "done"])

\* receiveInputEvents returns the error of stream.Recv()
ReceiverReturns ==
    /\ feed.receiver = "recv"
    /\ SetFeed([feed EXCEPT !.receiver = "returned"])

\* receiveErr := <-errChan; close(inputEvents); return: the deferred close of
\* the capture runs
GetFeedReturn ==
    /\ feed.getFeed = "wait"
    /\ feed.receiver = "returned"
    /\ SetFeed(ReturnFromGetFeed([feed EXCEPT !.closed = TRUE]))

\* sendScreenFeed: case <-ticker.C is taken and capture.ReadFrame is called
TickerFires ==
    /\ feed.sender = "select"
    /\ feed.frameCounter < MaxFrames
    /\ SetFeed([feed EXCEPT !.sender = "readFrame",
                            !.readsOfClosed = IF feed.capture = "closed" THEN 1 ELSE @])

\* capture.ReadFrame returns: io.EOF ends the sender, another error or an
\* empty frame goes back to the select, a frame is sent
ReadFrameReturns(res) ==
    /\ feed.sender = "readFrame"
    /\ SetFeed([feed EXCEPT !.sender = CASE res = "EOF" -> "stopped"
                                         [] res = "frame" -> "send"
                                         [] OTHER -> "select"])

\* stream.Send of the frame: an error ends the sender
SendFrame(ok) ==
    /\ feed.sender = "send"
    /\ ok => feed.context = "live"
    /\ SetFeed(IF ok THEN [feed EXCEPT !.sender = "select", !.frameCounter = @ + 1]
               ELSE [feed EXCEPT !.sender = "stopped"])

\* sendScreenFeed: case <-stream.Context().Done() is taken
ContextDone ==
    /\ feed.sender = "select"
    /\ feed.context = "done"
    /\ SetFeed([feed EXCEPT !.sender = "stopped"])

ScreenNext ==
    \/ \E ok \in BOOLEAN : NewScreenCapture(ok)
    \/ \E ok \in BOOLEAN : RecvInit(ok)
    \/ StartGoroutines
    \/ ClientGone
    \/ ReceiverReturns
    \/ GetFeedReturn
    \/ TickerFires
    \/ \E res \in {"EOF", "error", "empty", "frame"} : ReadFrameReturns(res)
    \/ \E ok \in BOOLEAN : SendFrame(ok)
    \/ ContextDone

ScreenSpec == ScreenInit /\ [][ScreenNext]_vars

\* C35: while the capture is closed sendScreenFeed is not running, so it neither
\* is in ReadFrame at the close nor calls ReadFrame after it.
C35_CaptureClosedAfterSender ==
    feed.capture = "closed" =>
        (feed.sender \in {"none", "stopped"} /\ feed.readsOfClosed = 0)


-----------------------------------------------------------------------------
(* handleInputEvents and processKeyboardInput: what is injected for an event *)

\* calls of robotgo
KeyToggle(key, dir) == <<"KeyToggle", key, dir>>

KeyTap(key) == <<"KeyTap", key>>

TypeStr(str) == <<"TypeStr", str>>

Move(x, y) == <<"Move", x, y>>

MouseDown(btn) == <<"MouseDown", btn>>

MouseUp(btn) == <<"MouseUp", btn>>

ScrollDir(n, dir) == <<"ScrollDir", n, dir>>

\* mapFyneKeyToRobotGo: <<key, isSpecial>>. The default branch lower-cases the
\* character of "Key?" and of a one-character name; it is given for the names
\* the model sends.
mapFyneKeyToRobotGo(fyneKeyName) ==
    CASE fyneKeyName \in {"Return", "Enter", "NumEnter"} -> <<"enter", TRUE>>
      [] fyneKeyName = "Space" -> <<"space", TRUE>>
      [] fyneKeyName = "Backspace" -> <<"backspace", TRUE>>
      [] fyneKeyName = "Delete" -> <<"delete", TRUE>>
      [] fyneKeyName = "Tab" -> <<"tab", TRUE>>
      [] fyneKeyName = "Escape" -> <<"escape", TRUE>>
      [] fyneKeyName \in {"ShiftL", "LeftShift", "ShiftR", "RightShift"} -> <<"shift", TRUE>>
      [] fyneKeyName \in {"ControlL", "LeftControl", "ControlR", "RightControl"}
           -> <<"ctrl", TRUE>>
      [] fyneKeyName \in {"AltL", "LeftAlt", "AltR", "RightAlt", "Menu"} -> <<"alt", TRUE>>
      [] fyneKeyName \in {"SuperL", "LeftSuper", "SuperR", "RightSuper", "MetaL", "MetaR"}
           -> <<"cmd", TRUE>>
      [] fyneKeyName = "F1" -> <<"f1", TRUE>>
      [] fyneKeyName = "Num7" -> <<"7", TRUE>>
      [] fyneKeyName = "KeyB" -> <<"b", FALSE>>
      [] fyneKeyName = "Q" -> <<"q", FALSE>>
      [] fyneKeyName = "" -> <<"", FALSE>>
      [] OTHER -> <<"unmapped", FALSE>>

\* a FeedRequest with the zero value in every field
ZeroRequest ==
    [ Message |-> "", MouseEventType |-> "", MouseBtn |-> "", MouseX |-> 0, MouseY |-> 0,
      ScrollX |-> 0, ScrollY |-> 0, BatchedMouseMoves |-> <<>>,
      KeyboardEventType |-> "", KeyName |-> "", KeyCharStr |-> "",
      ModifierCtrl |-> FALSE, ModifierAlt |-> FALSE ]

KeyNames == {"", "KeyB", "ShiftL", "ControlR", "Delete"}

\* keyboard events; the modifier flags are set on a keydown of Delete only
KeyboardRequests ==
    { [ZeroRequest EXCEPT !.Message = "keyboard_event", !.KeyboardEventType = type,
                          !.KeyName = name, !.KeyCharStr = char,
                          !.ModifierCtrl = mods[1], !.ModifierAlt = mods[2]] :
        type \in {"keydown", "keyup", "keychar"}, name \in KeyNames, char \in {"", "@"},
        mods \in {<<FALSE, FALSE>>} }
    \cup
    { [ZeroRequest EXCEPT !.Message = "keyboard_event", !.KeyboardEventType = "keydown",
                          !.KeyName = "Delete",
                          !.ModifierCtrl = mods[1], !.ModifierAlt = mods[2]] :
        mods \in {<<TRUE, FALSE>>, <<TRUE, TRUE>>} }
    \cup
    { [ZeroRequest EXCEPT !.Message = "keyboard_event", !.KeyboardEventType = "keyrepeat",
                          !.KeyName = "KeyB"] }

\* mouse events, single and batched
MouseRequests ==
    { [ZeroRequest EXCEPT !.Message = "mouse_event", !.MouseEventType = type,
                          !.MouseBtn = "left", !.MouseX = 3, !.MouseY = 4] :
        type \in {"down", "up", "move", "in", "out", "drag"} }
    \cup
    { [ZeroRequest EXCEPT !.Message = "mouse_event", !.MouseEventType = "scroll",
                          !.ScrollX = scroll[1], !.ScrollY = scroll[2]] :
        scroll \in {<<0, 2>>, <<-1, 0>>} }
    \cup
    { [ZeroRequest EXCEPT !.Message = "mouse_event",
                          !.MouseEventType = "batched_mouse_moves",
                          !.BatchedMouseMoves = moves] :
        moves \in {<<>>, <<<<1, 1>>, <<2, 5>>>>} }

FeedRequests ==
    KeyboardRequests \cup MouseRequests \cup {[ZeroRequest EXCEPT !.Message = "ping"]}

\* processKeyboardInput with a slip: the keyup of a key that is no modifier
\* taps the key as well
processKeyboardInputTapOnKeyup(reqMsg) ==
    LET kbEventType == reqMsg.KeyboardEventType
        keyChar == reqMsg.KeyCharStr
        robotgoKeyName == mapFyneKeyToRobotGo(reqMsg.KeyName)[1]
        isModifierKey == robotgoKeyName \in {"shift", "ctrl", "alt", "cmd"}
    IN IF /\ kbEventType = "keydown" /\ robotgoKeyName = "delete"
          /\ reqMsg.ModifierCtrl /\ reqMsg.ModifierAlt
       THEN <<KeyToggle("ctrl", "down"), KeyToggle("alt", "down"), KeyTap("delete"),
              KeyToggle("alt", "up"), KeyToggle("ctrl", "up")>>
       ELSE CASE kbEventType = "keydown" ->
                   IF robotgoKeyName # ""
                   THEN IF isModifierKey THEN <<KeyToggle(robotgoKeyName, "down")>>
                        ELSE <<KeyTap(robotgoKeyName)>>
                   ELSE IF keyChar # "" THEN <<TypeStr(keyChar)>> ELSE <<>>
              [] kbEventType = "keyup" ->
                   IF robotgoKeyName # ""
                   THEN IF isModifierKey THEN <<KeyToggle(robotgoKeyName, "up")>>
                        ELSE <<KeyTap(robotgoKeyName)>>
                   ELSE <<>>
              [] kbEventType = "keychar" ->
                   IF keyChar # "" THEN <<TypeStr(keyChar)>> ELSE <<>>
              [] OTHER -> <<>>

\* processKeyboardInput: the calls of robotgo it makes for one keyboard event
processKeyboardInput(reqMsg) ==
    LET kbEventType == reqMsg.KeyboardEventType
        keyChar == reqMsg.KeyCharStr
        robotgoKeyName == mapFyneKeyToRobotGo(reqMsg.KeyName)[1]
        isModifierKey == robotgoKeyName \in {"shift", "ctrl", "alt", "cmd"}
    IN IF /\ kbEventType = "keydown" /\ robotgoKeyName = "delete"
          /\ reqMsg.ModifierCtrl /\ reqMsg.ModifierAlt
       THEN <<KeyToggle("ctrl", "down"), KeyToggle("alt", "down"), KeyTap("delete"),
              KeyToggle("alt", "up"), KeyToggle("ctrl", "up")>>
       ELSE CASE kbEventType = "keydown" ->
                   IF robotgoKeyName # ""
                   THEN IF isModifierKey THEN <<KeyToggle(robotgoKeyName, "down")>>
                        ELSE <<KeyTap(robotgoKeyName)>>
                   ELSE IF keyChar # "" THEN <<TypeStr(keyChar)>> ELSE <<>>
              [] kbEventType = "keyup" ->
                   IF robotgoKeyName # "" /\ isModifierKey
                   THEN <<KeyToggle(robotgoKeyName, "up")>>
                   ELSE <<>>
              [] kbEventType = "keychar" ->
                   IF keyChar # "" THEN <<TypeStr(keyChar)>> ELSE <<>>
              [] OTHER -> <<>>

\* the scroll branch: horizontal first, then vertical
ScrollCalls(scrollX, scrollY) ==
    (IF scrollX > 0 THEN <<ScrollDir(scrollX, "right")>>
     ELSE IF scrollX < 0 THEN <<ScrollDir(-scrollX, "left")>> ELSE <<>>)
    \o (IF scrollY > 0 THEN <<ScrollDir(scrollY, "down")>>
        ELSE IF scrollY < 0 THEN <<ScrollDir(-scrollY, "up")>> ELSE <<>>)

\* the mouse_event case of handleInputEvents
MouseCalls(f, reqMsg) ==
    IF reqMsg.MouseEventType = "batched_mouse_moves"
    THEN [k \in 1..Len(reqMsg.BatchedMouseMoves) |->
            Move(reqMsg.BatchedMouseMoves[k][1] * f.scaleX,
                 reqMsg.BatchedMouseMoves[k][2] * f.scaleY)]
    ELSE <<Move(reqMsg.MouseX * f.scaleX, reqMsg.MouseY * f.scaleY)>>
         \o CASE reqMsg.MouseEventType = "down" -> <<MouseDown(reqMsg.MouseBtn)>>
              [] reqMsg.MouseEventType = "up" -> <<MouseUp(reqMsg.MouseBtn)>>
              [] reqMsg.MouseEventType = "scroll" ->
                   ScrollCalls(reqMsg.ScrollX, reqMsg.ScrollY)
              [] OTHER -> <<>>

\* the loop body with a slip: the permission test lets batched moves through
InputCallsBatchedPass(f, reqMsg) ==
    IF /\ reqMsg.Message = "mouse_event" /\ ~f.allowMouseControl
       /\ reqMsg.MouseEventType # "batched_mouse_moves"
    THEN <<>>
    ELSE CASE reqMsg.Message = "mouse_event" -> MouseCalls(f, reqMsg)
           [] reqMsg.Message = "keyboard_event" -> processKeyboardInput(reqMsg)
           [] OTHER -> <<>>

\* the body of the loop of handleInputEvents: the calls of robotgo for one event
InputCalls(f, reqMsg) ==
    IF reqMsg.Message = "mouse_event" /\ ~f.allowMouseControl
    THEN <<>>
    ELSE CASE reqMsg.Message = "mouse_event" -> MouseCalls(f, reqMsg)
           [] reqMsg.Message = "keyboard_event" -> processKeyboardInput(reqMsg)
           [] OTHER -> <<>>

\* the handler of a stream on a host with the given permissions; robot is the
\* sequence of calls of robotgo made so far, last the event handled last
NewHandler(mouse, keyboard) ==
    [ allowMouseControl |-> mouse, allowKeyboardControl |-> keyboard,
      scaleX |-> 2, scaleY |-> 1, robot |-> <<>>, handled |-> 0, last |-> ZeroRequest ]

HandlerInit ==
    /\ HostAbsent
    /\ LauncherIdle
    /\ ShutdownIdle
    /\ CallIdle
    /\ overlay = <<>>
    /\ \E mouse \in BOOLEAN, keyboard \in BOOLEAN : feed = NewHandler(mouse, keyboard)

\* one iteration of for reqMsg := range inputEvents
HandleRequest(reqMsg) ==
    /\ feed.handled < MaxHandled
    /\ feed' = [feed EXCEPT !.robot = @ \o InputCalls(feed, reqMsg),
                            !.handled = @ + 1,
                            !.last = reqMsg]
    /\ UNCHANGED <<hostVars, launcherVars, shutdownVars, callVars, overlay>>

HandlerNext == \E reqMsg \in FeedRequests : HandleRequest(reqMsg)

HandlerSpec == HandlerInit /\ [][HandlerNext]_vars

\* the calls of robotgo made by the step
Injected == SubSeq(feed'.robot, Len(feed.robot) + 1, Len(feed'.robot))

\* the step handles a keyboard event of the given type
HandlesKey(type) ==
    /\ feed'.handled = feed.handled + 1
    /\ feed'.last.Message = "keyboard_event"
    /\ feed'.last.KeyboardEventType = type

\* C32: keydown of a modifier key toggles it down and keyup toggles it up; keydown
\* of another key taps that key exactly once (alone, but for Delete with Ctrl
\* and Alt, where the tap is wrapped in the toggles of ctrl and alt) and its
\* keyup injects nothing; keychar types its character and does nothing when the
\* character is empty.
C32_KeyPressRelease ==
    /\ [][ (HandlesKey("keydown") /\ feed'.last.KeyName = "ShiftL")
           => Injected = <<KeyToggle("shift", "down")>> ]_vars
    /\ [][ (HandlesKey("keyup") /\ feed'.last.KeyName = "ShiftL")
           => Injected = <<KeyToggle("shift", "up")>> ]_vars
    /\ [][ (HandlesKey("keydown") /\ feed'.last.KeyName = "ControlR")
           => Injected = <<KeyToggle("ctrl", "down")>> ]_vars
    /\ [][ (HandlesKey("keyup") /\ feed'.last.KeyName = "ControlR")
           => Injected = <<KeyToggle("ctrl", "up")>> ]_vars
    /\ [][ (HandlesKey("keydown") /\ feed'.last.KeyName = "KeyB")
           => Injected = <<KeyTap("b")>> ]_vars
    /\ [][ (HandlesKey("keydown") /\ feed'.last.KeyName = "Delete")
           => (/\ Len(SelectSeq(Injected, LAMBDA c : c[1] = "KeyTap")) = 1
               /\ \E k \in 1..Len(Injected) : Injected[k] = KeyTap("delete")
               /\ ~(feed'.last.ModifierCtrl /\ feed'.last.ModifierAlt)
                     => Injected = <<KeyTap("delete")>>) ]_vars
    /\ [][ (HandlesKey("keyup") /\ feed'.last.KeyName \in {"KeyB", "Delete"})
           => Injected = <<>> ]_vars
    /\ [][ HandlesKey("keychar")
           => Injected = (IF feed'.last.KeyCharStr = "" THEN <<>>
                          ELSE <<TypeStr(feed'.last.KeyCharStr)>>) ]_vars

\* C32 witness: Shift went down and up
C32_Witness ==
    /\ feed.handled = 2
    /\ feed.last.KeyboardEventType = "keyup"
    /\ feed.last.KeyName = "ShiftL"
    /\ feed.robot = <<KeyToggle("shift", "down"), KeyToggle("shift", "up")>>

\* C32 witness: the key B went down and up, with one tap
C32_WitnessTap ==
    /\ feed.handled = 2
    /\ feed.last.KeyboardEventType = "keyup"
    /\ feed.last.KeyName = "KeyB"
    /\ feed.robot = <<KeyTap("b")>>

\* C36: with keyboard control denied no keyboard event makes a call of robotgo.
C36_KeyboardDenied ==
    [][ (~feed.allowKeyboardControl /\ feed'.handled = feed.handled + 1
           /\ feed'.last.Message = "keyboard_event")
        => feed'.robot = feed.robot ]_vars

\* C37: with mouse control denied no mouse event, single or batched, makes a
\* call of robotgo, and a keyboard event of the same stream is passed to
\* processKeyboardInput as it is with mouse control allowed.
C37_MouseDenied ==
    /\ [][ (~feed.allowMouseControl /\ feed'.handled = feed.handled + 1
              /\ feed'.last.Message = "mouse_event")
           => feed'.robot = feed.robot ]_vars
    /\ [](~feed.allowMouseControl =>
            \A k \in 1..Len(feed.robot) :
               feed.robot[k][1] \in {"KeyToggle", "KeyTap", "TypeStr"})
    /\ [][ (~feed.allowMouseControl /\ HandlesKey("keydown")
              /\ feed'.last.KeyName = "KeyB")
           => Injected = <<KeyTap("b")>> ]_vars
    /\ [][ (~feed.allowMouseControl /\ HandlesKey("keychar")
              /\ feed'.last.KeyCharStr = "@")
           => Injected = <<TypeStr("@")>> ]_vars

\* C37 witness: on a host that denies the mouse, a key was tapped and the batch
\* of two moves that followed moved nothing
C37_Witness ==
    /\ ~feed.allowMouseControl
    /\ feed.handled = 2
    /\ feed.last.MouseEventType = "batched_mouse_moves"
    /\ Len(feed.last.BatchedMouseMoves) = 2
    /\ feed.robot = <<KeyTap("b")>>


-----------------------------------------------------------------------------
(* The batching of mouse moves on the client *)

\* the request of a batch of points, and of a discrete event; mark is the
\* number of points recorded when the handler of the event was entered
BatchRequest(points) == [kind |-> "batched_mouse_moves", points |-> points, mark |-> 0]

DiscreteRequest(type, mark) == [kind |-> type, points |-> <<>>, mark |-> mark]

\* the handlers of discrete events in the model: MouseDown, Scrolled, TypedRune
DiscreteTypes == {"down", "scroll", "rune"}

\* the overlay behind newMouseOverlay: batchedMoves is empty and the ticker
\* goroutine runs. Points are numbered as MouseMoved records them; flushed,
\* accepted and taken are histories for the properties; ui is the handler the UI
\* goroutine is in.
NewBatchOverlay(mouse, keyboard) ==
    [ inputEventsChan |-> <<>>, canControlMouse |-> mouse, canControlKeyboard |-> keyboard,
      batchedMoves |-> <<>>, recorded |-> 0, discrete |-> 0, ui |-> <<>>,
      flushed |-> <<>>, accepted |-> <<>>, taken |-> <<>> ]

BatchInit ==
    /\ HostAbsent
    /\ LauncherIdle
    /\ ShutdownIdle
    /\ CallIdle
    /\ feed = <<>>
    /\ \E mouse \in BOOLEAN, keyboard \in BOOLEAN : overlay = NewBatchOverlay(mouse, keyboard)

SetOverlay(o) ==
    /\ overlay' = o
    /\ UNCHANGED <<hostVars, launcherVars, shutdownVars, callVars, feed>>

\* the select with a default case on the channel of the overlay
Enqueue(o, req) ==
    IF Len(o.inputEventsChan) < OverlayChanCap
    THEN [o EXCEPT !.inputEventsChan = Append(@, req), !.accepted = Append(@, req)]
    ELSE o

\* sendBatchedMovesLocked with a slip: a batch that was dropped stays pending
sendBatchedMovesLockedKeep(o) ==
    IF Len(o.batchedMoves) = 0 THEN o
    ELSE LET req == BatchRequest(o.batchedMoves)
             sent == Len(o.inputEventsChan) < OverlayChanCap
         IN [Enqueue(o, req) EXCEPT
               !.flushed = Append(@, [points |-> o.batchedMoves, sent |-> sent]),
               !.batchedMoves = IF sent THEN <<>> ELSE @]

\* sendBatchedMovesLocked: nothing for an empty batch; otherwise the copy of
\* the batch is sent or dropped and the batch is cleared
sendBatchedMovesLocked(o) ==
    IF Len(o.batchedMoves) = 0 THEN o
    ELSE LET req == BatchRequest(o.batchedMoves)
             sent == Len(o.inputEventsChan) < OverlayChanCap
         IN [Enqueue(o, req) EXCEPT
               !.flushed = Append(@, [points |-> o.batchedMoves, sent |-> sent]),
               !.batchedMoves = <<>>]

\* MouseMoved: without the permission nothing; otherwise the point is appended
\* under batchMutex
MouseMoved ==
    /\ overlay.recorded < MaxPoints
    /\ SetOverlay(IF ~overlay.canControlMouse
                  THEN overlay
                  ELSE [overlay EXCEPT !.recorded = @ + 1,
                                       !.batchedMoves = Append(@, overlay.recorded + 1)])

\* the ticker goroutine: sendBatchedMoves every 20 ms, under batchMutex
TickerFlush ==
    /\ overlay.batchedMoves # <<>>
    /\ SetOverlay(sendBatchedMovesLocked(overlay))

\* the handler of a discrete event with a slip: it does not flush the batch
HandlerEnterNoFlush(type) ==
    /\ overlay.ui = <<>>
    /\ overlay.discrete < MaxDiscrete
    /\ SetOverlay(IF type = "rune" /\ ~overlay.canControlKeyboard
                  THEN [overlay EXCEPT !.discrete = @ + 1]
                  ELSE [overlay EXCEPT !.ui = <<type, overlay.recorded>>])

\* the handler of a discrete event up to its call of sendBatchedMoves; TypedRune
\* returns before it without the keyboard permission
HandlerEnter(type) ==
    /\ overlay.ui = <<>>
    /\ overlay.discrete < MaxDiscrete
    /\ SetOverlay(IF type = "rune" /\ ~overlay.canControlKeyboard
                  THEN [overlay EXCEPT !.discrete = @ + 1]
                  ELSE [sendBatchedMovesLocked(overlay) EXCEPT
                          !.ui = <<type, overlay.recorded>>])

\* the rest of the handler: sendMouseEvent and sendScrollEvent drop the event
\* without the mouse permission, otherwise the request is sent or dropped
HandlerSend ==
    /\ overlay.ui # <<>>
    /\ LET type == overlay.ui[1]
           req == DiscreteRequest(type, overlay.ui[2])
           o == [overlay EXCEPT !.ui = <<>>, !.discrete = @ + 1]
       IN SetOverlay(IF type # "rune" /\ ~overlay.canControlMouse THEN o
                     ELSE Enqueue(o, req))

BatchNext ==
    \/ MouseMoved
    \/ TickerFlush
    \/ \E type \in DiscreteTypes : HandlerEnter(type)
    \/ HandlerSend
    \/ OverlayChanReceive

BatchSpec == BatchInit /\ [][BatchNext]_vars

\* the points of the batches of a history, in the order of the history
RECURSIVE PointsOf(_)
PointsOf(batches) ==
    IF batches = <<>> THEN <<>> ELSE Head(batches).points \o PointsOf(Tail(batches))

\* the batches among the requests of s
BatchesIn(s) == SelectSeq(s, LAMBDA r : r.kind = "batched_mouse_moves")

\* C38: the points of all flushed batches, in the order of the flushes, followed
\* by the pending batch are the recorded points, each once and in the order of
\* their recording; the batches in the channel are the flushed batches that
\* were not dropped, in flush order; no batch is empty; and after a flush
\* attempt, enqueued or dropped, the pending batch is empty.
C38_BatchesPartitionPoints ==
    /\ [](PointsOf(overlay.flushed) \o overlay.batchedMoves
            = [k \in 1..overlay.recorded |-> k])
    /\ [](\A k \in 1..Len(overlay.flushed) : overlay.flushed[k].points # <<>>)
    /\ [](PointsOf(BatchesIn(overlay.accepted))
            = PointsOf(SelectSeq(overlay.flushed, LAMBDA b : b.sent)))
    /\ [](overlay.accepted = overlay.taken \o overlay.inputEventsChan)
    /\ [][ Len(overlay'.flushed) > Len(overlay.flushed)
           => (/\ overlay'.batchedMoves = <<>>
               /\ Len(overlay'.flushed) = Len(overlay.flushed) + 1
               /\ overlay'.flushed[Len(overlay'.flushed)].points = overlay.batchedMoves) ]_vars
    /\ [][ (overlay.ui = <<>> /\ overlay'.ui # <<>>) => overlay'.batchedMoves = <<>> ]_vars
    /\ [][ (overlay.batchedMoves = <<>> /\ overlay.ui = <<>> /\ overlay'.ui # <<>>)
           => (/\ overlay'.inputEventsChan = overlay.inputEventsChan
               /\ overlay'.flushed = overlay.flushed) ]_vars

\* C38 witness: the first point was flushed into the channel, the second was
\* flushed while the channel was full and is lost, the third is pending
C38_Witness ==
    /\ overlay.flushed = << [points |-> <<1>>, sent |-> TRUE],
                            [points |-> <<2>>, sent |-> FALSE] >>
    /\ overlay.batchedMoves = <<3>>
    /\ overlay.inputEventsChan = <<BatchRequest(<<1>>)>>

\* C39: when a discrete event is about to be sent, no point recorded before its
\* handler was entered is pending; so among the requests that entered the
\* channel no batch behind a discrete event holds a point recorded before the
\* event.
C39_MovesBeforeDiscrete ==
    /\ overlay.ui # <<>> =>
          \A k \in 1..Len(overlay.batchedMoves) : overlay.batchedMoves[k] > overlay.ui[2]
    /\ \A i, j \in 1..Len(overlay.accepted) :
          (/\ i < j
           /\ overlay.accepted[i].kind # "batched_mouse_moves"
           /\ overlay.accepted[j].kind = "batched_mouse_moves")
          => \A k \in 1..Len(overlay.accepted[j].points) :
                overlay.accepted[j].points[k] > overlay.accepted[i].mark

\* C39 witness: a button press after two moves and a move after it: the batch of
\* the two moves was taken from the channel before the press was sent, the
\* later move came behind the press
C39_Witness ==
    /\ overlay.accepted = << BatchRequest(<<1, 2>>), DiscreteRequest("down", 2),
                             BatchRequest(<<3>>) >>
    /\ overlay.ui = <<>>

=============================================================================
